---- MODULE Spec2Model ----
(***************************************************************************)
(* T-Flex coin dispenser: the wire codec, the serial driver                *)
(* (src/src/backend/driver_tflex.py) and the device simulator              *)
(* (src/tests/mock_tflex.py).                                              *)
(*                                                                         *)
(* The specifications that share this module:                              *)
(*   SpecCodec  - the framing and checksum functions applied to inputs     *)
(*                drawn from bounded sets;                                 *)
(*   SpecDriver - caller threads of TFlex._send_command on one serial      *)
(*                port, with a device that answers after a delay;          *)
(*   SpecSim    - the simulator's asyncio event loop: client handlers,     *)
(*                background tasks, the shared MockTFlexState and the      *)
(*                operator console (SpecSimLive adds the loop's fairness); *)
(*   SpecApi    - the driver's public operations status(), dispense() and  *)
(*                reset(), called one after the other against a transport  *)
(*                that answers, garbles or stays silent;                   *)
(*   SpecStream, SpecLine - byte streams and single frames, whole, cut or  *)
(*                damaged, given to the two receive paths;                 *)
(*   SpecDegraded, SpecDegradedThreads - the driver in mock mode, with one *)
(*                caller and with several;                                 *)
(*   SpecThreshold - the low-coin tests of the mock mode and of the        *)
(*                simulator on the same coin count.                        *)
(***************************************************************************)
EXTENDS Integers, Sequences, FiniteSets, TLC

VARIABLES
    \* ---- codec experiment ----
    cpc,        \* "input" | "framed" | "received"
    cin,        \* the input: [dir, command, payload, transport]
    cwire,      \* the bytes the encoder put on the wire
    cres,       \* what the receiving side made of them
    \* ---- driver ----
    lock,       \* TFlex._lock: 0 = free, else the thread holding it
    dpc,        \* per thread: position inside _send_command
    dreq,       \* per thread: [id, command, data] of the current call
    dresp,      \* per thread: the local bytearray `response` (tagged bytes)
    dresult,    \* per thread: how the last call ended (ghost: tags, id, frame read)
    nextId,     \* ghost: request identifiers handed out so far
    tx,         \* requests written to the port and not yet answered
    rx,         \* the port's input buffer: bytes tagged with the request answered
    \* ---- simulator ----
    state,      \* MockTFlexState, shared by all connections
    cliActive,  \* MockTFlexCLI.run_interactive holds the event loop
    readerBuf,  \* per connection: bytes fed to the StreamReader, not yet read
    buffer,     \* per connection: MockTFlexProtocol.buffer
    ready,      \* the event loop's FIFO of callbacks ready to run
    tasks,      \* background tasks created by create_task and not finished
    taskSeq,    \* number of tasks created so far (task identifiers)
    delivered,  \* ghost: number of request frames delivered so far
    events,     \* ghost: what the latest event-loop step did
    \* ---- driver operations ----
    drv,        \* the TFlex object: _mock_mode, serial open, _mock_coins, _last_status
    alast,      \* ghost: the latest call, its input and how it ended
    acalls      \* ghost: number of calls made so far

codecVars  == <<cpc, cin, cwire, cres>>
driverVars == <<lock, dpc, dreq, dresp, dresult, nextId, tx, rx>>
simVars    == <<state, cliActive, readerBuf, buffer, ready, tasks, taskSeq, delivered, events>>
apiVars    == <<drv, alast, acalls>>
vars       == <<codecVars, driverVars, simVars, apiVars>>

-----------------------------------------------------------------------------
(* Protocol constants *)

STX == 2
ETX == 3

CMD_STATUS    == 1
CMD_DISPENSE  == 2
CMD_RESET     == 3
CMD_CALIBRATE == 4

RESP_OK       == 0
RESP_ERROR    == 1
RESP_BUSY     == 2
RESP_LOW_COIN == 3
RESP_LID_OPEN == 4
RESP_FAULT    == 5

-----------------------------------------------------------------------------
(* Byte arithmetic *)

\* bit i of x
Bit(x, i) == (x \div (2 ^ i)) % 2

\* a ^ b on bytes
Xor8(a, b) ==
      ((Bit(a, 0) + Bit(b, 0)) % 2)
    + ((Bit(a, 1) + Bit(b, 1)) % 2) * 2
    + ((Bit(a, 2) + Bit(b, 2)) % 2) * 4
    + ((Bit(a, 3) + Bit(b, 3)) % 2) * 8
    + ((Bit(a, 4) + Bit(b, 4)) % 2) * 16
    + ((Bit(a, 5) + Bit(b, 5)) % 2) * 32
    + ((Bit(a, 6) + Bit(b, 6)) % 2) * 64
    + ((Bit(a, 7) + Bit(b, 7)) % 2) * 128

\* one pass of the inner loop `for _ in range(8)`:
\*   crc = (crc << 1) ^ 0x07 if crc & 0x80 else crc << 1;  crc &= 0xFF
\* (crc << 1 has its three low bits 0x0, so ^ 0x07 flips them by arithmetic)
CrcShift(crc) ==
    LET shifted == (crc * 2) % 256 IN
    IF Bit(crc, 7) = 1
    THEN (shifted - (shifted % 8)) + (7 - (shifted % 8))
    ELSE shifted

\* the eight passes of the inner loop, for every value crc ^ byte can take
CrcTable ==
    [x \in 0..255 |->
        CrcShift(CrcShift(CrcShift(CrcShift(
        CrcShift(CrcShift(CrcShift(CrcShift(x))))))))]

\* the body of `for byte in data`: crc ^= byte, then the eight passes
CrcByte(crc, byte) == CrcTable[Xor8(crc, byte)]

\* CRC-8, initial value 0, over data from its first byte to its last
\* (the value for the bytes before the last is bound before the last is folded in)
RECURSIVE Crc8(_)
Crc8(data) ==
    IF data = <<>> THEN 0
    ELSE CHOOSE r \in { CrcByte(before, data[Len(data)]) :
                            before \in {Crc8(SubSeq(data, 1, Len(data) - 1))} } : TRUE

\* a checksum with a final XOR of 0x55
Crc8_finalXor(data) == Xor8(Crc8(data), 85)

\* TFlex._calculate_crc
TFlex_calculate_crc(data) == Crc8(data)

\* MockTFlexProtocol._calculate_crc
Mock_calculate_crc(data) == Crc8(data)

\* Python slice s[i:j] for 0 <= i, with j counted from the front (0-based, exclusive)
Slice(s, i, j) ==
    IF j <= i THEN <<>> ELSE SubSeq(s, i + 1, IF j > Len(s) THEN Len(s) ELSE j)

-----------------------------------------------------------------------------
(* Driver: request framing (TFlex._send_command, packet construction) *)

\* packet[1:-1] if len(packet) > 1 else packet[1:]
RequestCrcRange(packet) ==
    IF Len(packet) > 1 THEN Slice(packet, 1, Len(packet) - 1)
    ELSE Slice(packet, 1, Len(packet))

BuildRequest(command, data) ==
    LET packet == <<STX, Len(data) + 1, command>> \o data
        crc    == TFlex_calculate_crc(RequestCrcRange(packet))
    IN  packet \o <<crc, ETX>>

(* Simulator: response framing (MockTFlexProtocol._send_response).  Nothing
   is written when the protocol object has no transport. *)

\* a checksum range that stops one byte short, as packet[1:-1] would
SendResponseRange_short(packet) == Slice(packet, 1, Len(packet) - 1)

\* packet[1:] at the time the checksum is computed: LEN and the body
SendResponseRange(packet) == Slice(packet, 1, Len(packet))

send_response(transport, response_data) ==
    IF ~transport THEN <<>>
    ELSE LET packet == <<STX, Len(response_data)>> \o response_data
             crc    == Mock_calculate_crc(SendResponseRange(packet))
         IN  packet \o <<crc, ETX>>

-----------------------------------------------------------------------------
(* Simulator: request decoding *)

\* a packet check without the checksum test
DecodePacket_noCrcCheck(packet) ==
    LET n == Len(packet) IN
    IF n < 5 THEN [ok |-> FALSE, why |-> "length"]
    ELSE IF packet[1] # STX \/ packet[n] # ETX THEN [ok |-> FALSE, why |-> "framing"]
    ELSE IF packet[2] > 0
         THEN [ok |-> TRUE, why |-> "command", command |-> packet[3],
               data |-> IF packet[2] > 1 THEN SubSeq(packet, 4, 2 + packet[2]) ELSE <<>>]
         ELSE [ok |-> FALSE, why |-> "empty"]

\* MockTFlexProtocol._handle_packet up to the extraction of command and data:
\* the checks that drop a packet, then command = packet[2], data = packet[3:2+length]
DecodePacket(packet) ==
    LET n == Len(packet) IN
    IF n < 5 THEN [ok |-> FALSE, why |-> "length"]
    ELSE IF packet[1] # STX \/ packet[n] # ETX THEN [ok |-> FALSE, why |-> "framing"]
    ELSE IF packet[n - 1] # Mock_calculate_crc(Slice(packet, 1, n - 2))
         THEN [ok |-> FALSE, why |-> "crc"]
    ELSE IF packet[2] > 0
         THEN [ok |-> TRUE, why |-> "command", command |-> packet[3],
               data |-> IF packet[2] > 1 THEN Slice(packet, 3, 2 + packet[2]) ELSE <<>>]
         ELSE [ok |-> FALSE, why |-> "empty"]

\* a buffer scan that does not wait for the declared length: five bytes or
\* more are cut as one packet
process_buffer_noWait(buf, packets) ==
    IF Len(buf) < 5 THEN [packets |-> packets, rest |-> buf]
    ELSE [packets |-> Append(packets, buf), rest |-> <<>>]

\* MockTFlexProtocol._process_buffer: the packets cut from the buffer, in order,
\* and the bytes left in it
RECURSIVE process_buffer(_, _)
process_buffer(buf, packets) ==
    IF Len(buf) < 5 THEN [packets |-> packets, rest |-> buf]
    ELSE IF buf[1] # STX THEN process_buffer(Tail(buf), packets)
    ELSE IF Len(buf) < buf[2] + 4 THEN [packets |-> packets, rest |-> buf]
    ELSE process_buffer(Slice(buf, buf[2] + 4, Len(buf)),
                        Append(packets, Slice(buf, 0, buf[2] + 4)))

-----------------------------------------------------------------------------
(* Driver: response reception (TFlex._send_command, wait loop and validation) *)

\* a test that does not wait for the declared length: START first, END last
ResponseComplete_noLength(response) ==
    /\ Len(response) >= 2
    /\ response[1] = STX
    /\ response[Len(response)] = ETX

\* the test that ends the wait loop, on the bytes read so far
ResponseComplete(response) ==
    /\ Len(response) >= 2
    /\ response[1] = STX
    /\ Len(response) >= response[2] + 4
    /\ response[Len(response)] = ETX

\* "Validate response" to "return bytes(response_data)"
ValidateResponse(response) ==
    LET n == Len(response) IN
    IF n < 5 THEN [outcome |-> "TFlexError", why |-> "length", body |-> <<>>]
    ELSE IF response[1] # STX \/ response[n] # ETX
         THEN [outcome |-> "TFlexError", why |-> "framing", body |-> <<>>]
    ELSE IF response[n - 1] # TFlex_calculate_crc(Slice(response, 1, n - 2))
         THEN [outcome |-> "TFlexError", why |-> "crc", body |-> <<>>]
    ELSE LET response_data == Slice(response, 2, n - 2) IN
         IF Len(response_data) > 0 /\ response_data[1] = RESP_ERROR
         THEN [outcome |-> "TFlexHardwareError", why |-> "error", body |-> <<>>]
         ELSE IF Len(response_data) > 0 /\ response_data[1] = RESP_FAULT
         THEN [outcome |-> "TFlexHardwareError", why |-> "fault", body |-> <<>>]
         ELSE [outcome |-> "return", why |-> "ok", body |-> response_data]

TimeoutResult == [outcome |-> "TFlexTimeoutError", why |-> "timeout", body |-> <<>>]

\* the wait loop run over a finite supply of bytes after which the transport
\* delivers nothing more: bytes are read one at a time until the loop's test holds
RECURSIVE ReadLoop(_, _)
ReadLoop(response, supply) ==
    IF ResponseComplete(response) THEN ValidateResponse(response)
    ELSE IF supply = <<>> THEN TimeoutResult
    ELSE ReadLoop(Append(response, Head(supply)), Tail(supply))

-----------------------------------------------------------------------------
(* Bounds of the model *)

\* longest request data / response extra bytes drawn for the codec
MaxData == 2

\* byte values drawn for payloads: the sentinels, every outcome code, and
\* values with high bits set
ByteSample == {0, 1, 2, 3, 5, 166, 255}

\* command bytes drawn for requests: the four commands and two unknown ones
CommandSample == {CMD_STATUS, CMD_DISPENSE, CMD_RESET, CMD_CALIBRATE, 6, 255}

RECURSIVE SeqsUpTo(_, _)
SeqsUpTo(S, n) ==
    IF n = 0 THEN {<<>>}
    ELSE LET shorter == SeqsUpTo(S, n - 1)
         IN  shorter \cup {Append(s, x) : s \in {t \in shorter : Len(t) = n - 1}, x \in S}

-----------------------------------------------------------------------------
(* Values of the parts a specification leaves alone *)

Threads == {1, 2}
Conns   == {1, 2}

NoCall    == [id |-> 0, command |-> 0, data |-> <<>>]
NoResult  == [outcome |-> "none", why |-> "none", body |-> <<>>, tags |-> {}, id |-> 0,
              frame |-> <<>>]

DriverInit ==
    /\ lock = 0
    /\ dpc = [t \in Threads |-> "idle"]
    /\ dreq = [t \in Threads |-> NoCall]
    /\ dresp = [t \in Threads |-> <<>>]
    /\ dresult = [t \in Threads |-> NoResult]
    /\ nextId = 0
    /\ tx = <<>>
    /\ rx = <<>>

\* MockTFlexState as constructed by MockTFlexServer.__init__
DefaultState ==
    [coins_available |-> 1000, low_coin_threshold |-> 50, lid_open |-> FALSE,
     fault |-> FALSE, busy |-> FALSE, total_dispensed |-> 0, jam_simulation |-> FALSE]

SimIdle ==
    /\ state = DefaultState
    /\ cliActive = FALSE
    /\ readerBuf = [c \in Conns |-> <<>>]
    /\ buffer = [c \in Conns |-> <<>>]
    /\ ready = <<>>
    /\ tasks = {}
    /\ taskSeq = 0
    /\ delivered = 0
    /\ events = <<>>

CodecIdle ==
    /\ cpc = "idle"
    /\ cin = [dir |-> "none", command |-> 0, payload |-> <<>>, transport |-> FALSE]
    /\ cwire = <<>>
    /\ cres = [outcome |-> "none"]

\* TFlexStatus(): the cached snapshot before the first poll
DefaultStatus ==
    [low_coin |-> FALSE, lid_open |-> FALSE, fault |-> FALSE, coins_available |-> 0]

\* no call made yet
NoApiCall == [op |-> "none"]

\* TFlex.__init__ with a serial port that opened
ApiIdle ==
    /\ drv = [mock_mode |-> FALSE, serial_open |-> TRUE, mock_coins |-> 1000,
              last_status |-> DefaultStatus]
    /\ alast = NoApiCall
    /\ acalls = 0

-----------------------------------------------------------------------------
(* SpecCodec: the framing functions applied to drawn inputs *)

CodecInit ==
    /\ cpc = "input"
    /\ cin \in [dir : {"request"}, command : CommandSample,
                payload : SeqsUpTo(ByteSample, MaxData), transport : {TRUE}]
           \cup [dir : {"response"}, command : {0},
                 payload : SeqsUpTo(ByteSample, MaxData + 1) \ {<<>>},
                 transport : BOOLEAN]
    /\ cwire = <<>>
    /\ cres = [outcome |-> "none"]

\* the driver frames the request and writes it
DriverEncodes ==
    /\ cpc = "input" /\ cin.dir = "request"
    /\ cwire' = BuildRequest(cin.command, cin.payload)
    /\ cpc' = "framed"
    /\ UNCHANGED <<cin, cres>>
    /\ UNCHANGED <<driverVars, simVars, apiVars>>

\* data_received: the simulator buffers the bytes, cuts packets and decodes them
SimulatorDecodes ==
    /\ cpc = "framed" /\ cin.dir = "request"
    /\ LET cut == process_buffer(cwire, <<>>) IN
       cres' = [outcome |-> "decoded",
                decoded |-> [i \in 1..Len(cut.packets) |-> DecodePacket(cut.packets[i])],
                rest    |-> cut.rest]
    /\ cpc' = "received"
    /\ UNCHANGED <<cin, cwire>>
    /\ UNCHANGED <<driverVars, simVars, apiVars>>

\* the simulator frames a response body
SimulatorEncodes ==
    /\ cpc = "input" /\ cin.dir = "response"
    /\ cwire' = send_response(cin.transport, cin.payload)
    /\ cpc' = "framed"
    /\ UNCHANGED <<cin, cres>>
    /\ UNCHANGED <<driverVars, simVars, apiVars>>

\* the driver's wait loop and validation on those bytes
DriverDecodes ==
    /\ cpc = "framed" /\ cin.dir = "response"
    /\ cres' = ReadLoop(<<>>, cwire)
    /\ cpc' = "received"
    /\ UNCHANGED <<cin, cwire>>
    /\ UNCHANGED <<driverVars, simVars, apiVars>>

CodecNext ==
    \/ DriverEncodes
    \/ SimulatorDecodes
    \/ SimulatorEncodes
    \/ DriverDecodes

InitCodec == CodecInit /\ DriverInit /\ SimIdle /\ ApiIdle

SpecCodec == InitCodec /\ [][CodecNext]_vars

-----------------------------------------------------------------------------
(* SpecDriver: threads calling TFlex._send_command on one open serial port.
   The device at the other end takes the requests in the order written and
   answers each with one framed response, after any delay.  Every byte in
   the port's input buffer carries, as a ghost tag, the identifier of the
   request it answers. *)

\* calls made in one run of the model
MaxCalls == 2

\* what callers send: status(), dispense(5), reset()
DriverCalls ==
    { [command |-> CMD_STATUS,   data |-> <<>>],
      [command |-> CMD_DISPENSE, data |-> <<0, 5>>],
      [command |-> CMD_RESET,    data |-> <<>>] }

\* response bodies the device may answer with
DeviceBodies == { <<RESP_OK>>, <<RESP_FAULT>>, <<RESP_OK, 0, 3, 232>> }

Bytes(tagged) == [i \in 1..Len(tagged) |-> tagged[i][1]]
Tags(tagged)  == {tagged[i][2] : i \in 1..Len(tagged)}
Tagged(bytes, id) == [i \in 1..Len(bytes) |-> <<bytes[i], id>>]

\* a lock that stays with the caller when the wait loop raises the timeout
LockAfterCall_keptOnTimeout(t, outcome) ==
    IF outcome = "TFlexTimeoutError" THEN t ELSE 0

\* _serial_lock: `with self._lock: yield` gives the lock back however the
\* body of the with-statement in _send_command is left
LockAfterCall(t, outcome) == 0

\* _send_command up to the with-statement: the packet is built from the
\* arguments; the caller then waits for the lock
Call(t, c) ==
    /\ dpc[t] = "idle"
    /\ nextId < MaxCalls
    /\ nextId' = nextId + 1
    /\ dreq' = [dreq EXCEPT ![t] = [id |-> nextId + 1, command |-> c.command, data |-> c.data]]
    /\ dpc' = [dpc EXCEPT ![t] = "acquire"]
    /\ UNCHANGED <<lock, dresp, dresult, tx, rx>>
    /\ UNCHANGED <<codecVars, simVars, apiVars>>

\* with self._serial_lock(): blocks until the lock is free
Acquire(t) ==
    /\ dpc[t] = "acquire"
    /\ lock = 0
    /\ lock' = t
    /\ dpc' = [dpc EXCEPT ![t] = "write"]
    /\ UNCHANGED <<dreq, dresp, dresult, nextId, tx, rx>>
    /\ UNCHANGED <<codecVars, simVars, apiVars>>

\* self._serial.write(packet); flush(); response = bytearray()
Write(t) ==
    /\ dpc[t] = "write"
    /\ tx' = Append(tx, [id |-> dreq[t].id,
                         frame |-> BuildRequest(dreq[t].command, dreq[t].data)])
    /\ dresp' = [dresp EXCEPT ![t] = <<>>]
    /\ dpc' = [dpc EXCEPT ![t] = "wait"]
    /\ UNCHANGED <<lock, dreq, dresult, nextId, rx>>
    /\ UNCHANGED <<codecVars, simVars, apiVars>>

\* one pass of the wait loop with in_waiting > 0: read(1), extend, test
ReadByte(t) ==
    /\ dpc[t] = "wait"
    /\ rx # <<>>
    /\ rx' = Tail(rx)
    /\ LET response == Append(dresp[t], Head(rx)) IN
       /\ dresp' = [dresp EXCEPT ![t] = response]
       /\ dpc' = [dpc EXCEPT ![t] =
                    IF ResponseComplete(Bytes(response)) THEN "validate" ELSE "wait"]
    /\ UNCHANGED <<lock, dreq, dresult, nextId, tx>>
    /\ UNCHANGED <<codecVars, simVars, apiVars>>

\* the while condition fails: the else branch raises TFlexTimeoutError
Timeout(t) ==
    /\ dpc[t] = "wait"
    /\ dresult' = [dresult EXCEPT ![t] =
                     [outcome |-> TimeoutResult.outcome, why |-> TimeoutResult.why,
                      body |-> <<>>, tags |-> {}, id |-> dreq[t].id,
                      frame |-> Bytes(dresp[t])]]
    /\ lock' = LockAfterCall(t, TimeoutResult.outcome)
    /\ dresp' = [dresp EXCEPT ![t] = <<>>]
    /\ dreq' = [dreq EXCEPT ![t] = NoCall]
    /\ dpc' = [dpc EXCEPT ![t] = "idle"]
    /\ UNCHANGED <<nextId, tx, rx>>
    /\ UNCHANGED <<codecVars, simVars, apiVars>>

\* after the break: validation, then return or raise, leaving the with-block
Validate(t) ==
    /\ dpc[t] = "validate"
    /\ LET v == ValidateResponse(Bytes(dresp[t])) IN
       /\ dresult' = [dresult EXCEPT ![t] =
                        [outcome |-> v.outcome, why |-> v.why, body |-> v.body,
                         tags |-> Tags(dresp[t]), id |-> dreq[t].id,
                         frame |-> Bytes(dresp[t])]]
       /\ lock' = LockAfterCall(t, v.outcome)
    /\ dresp' = [dresp EXCEPT ![t] = <<>>]
    /\ dreq' = [dreq EXCEPT ![t] = NoCall]
    /\ dpc' = [dpc EXCEPT ![t] = "idle"]
    /\ UNCHANGED <<nextId, tx, rx>>
    /\ UNCHANGED <<codecVars, simVars, apiVars>>

\* the device answers the oldest unanswered request with one framed response
DeviceAnswers(body) ==
    /\ tx # <<>>
    /\ rx' = rx \o Tagged(send_response(TRUE, body), Head(tx).id)
    /\ tx' = Tail(tx)
    /\ UNCHANGED <<lock, dpc, dreq, dresp, dresult, nextId>>
    /\ UNCHANGED <<codecVars, simVars, apiVars>>

DriverNext ==
    \/ \E t \in Threads, c \in DriverCalls : Call(t, c)
    \/ \E t \in Threads : Acquire(t)
    \/ \E t \in Threads : Write(t)
    \/ \E t \in Threads : ReadByte(t)
    \/ \E t \in Threads : Timeout(t)
    \/ \E t \in Threads : Validate(t)
    \/ \E body \in DeviceBodies : DeviceAnswers(body)

InitDriver == DriverInit /\ CodecIdle /\ SimIdle /\ ApiIdle

SpecDriver == InitDriver /\ [][DriverNext]_vars

\* a thread inside the with-block keeps running: it writes, the deadline of
\* its wait loop passes (time.time() advances while it polls), and it
\* validates what it read
DriverFairness ==
    \A t \in Threads :
        /\ WF_vars(Write(t))
        /\ WF_vars(Timeout(t))
        /\ WF_vars(Validate(t))

SpecDriverLive == InitDriver /\ [][DriverNext]_vars /\ DriverFairness

-----------------------------------------------------------------------------
(* Driver claims *)

InRoundTrip(t) == dpc[t] \in {"write", "wait", "validate"}

\* C3: driver mutual exclusion. A thread that is writing its request, waiting
\* for the response or validating it holds the lock, so at most one round trip
\* is under way; and the lock is held only by such a thread: however a round
\* trip ended (return, hardware error, framing/CRC error, timeout) the lock is
\* free again, so a finished call never blocks a waiting caller.
C3_MutualExclusion ==
    /\ \A t \in Threads : InRoundTrip(t) => lock = t
    /\ \A t, u \in Threads : (InRoundTrip(t) /\ InRoundTrip(u)) => t = u
    /\ lock # 0 => InRoundTrip(lock)
    /\ \A t \in Threads : dresult[t].outcome # "none" /\ dpc[t] = "idle" => lock # t

\* thread 1's call has ended in a timeout while thread 2 was waiting for the
\* lock; thread 2 then took the lock, wrote its request and is reading
C3_Witness ==
    /\ dresult[1].outcome = "TFlexTimeoutError"
    /\ dresult[2].outcome = "none"
    /\ dpc[1] = "idle"
    /\ lock = 2 /\ dpc[2] = "wait" /\ dresp[2] # <<>>

\* C4: response attribution. A body returned to a caller is made only of bytes
\* the device sent in answer to that call's own request.
C4_ResponseAttribution ==
    \A t \in Threads :
        dresult[t].outcome = "return" => dresult[t].tags = {dresult[t].id}

-----------------------------------------------------------------------------
(* Simulator: command handlers on MockTFlexState.  Each handler yields the
   state it leaves, the response body it returns and the background task it
   hands to asyncio.create_task, if any. *)

\* a threshold test that is strict
low_coin_below(st) == st.coins_available < st.low_coin_threshold

\* MockTFlexState.low_coin
low_coin(st) == st.coins_available <= st.low_coin_threshold

NoSpawn == [kind |-> "none", coins |-> 0]

\* a status byte with the busy and low-coin bits exchanged
handle_status_busyFirst(st) ==
    LET status_flags == (IF st.busy THEN 1 ELSE 0) + (IF st.lid_open THEN 2 ELSE 0)
                      + (IF st.fault THEN 4 ELSE 0) + (IF low_coin(st) THEN 8 ELSE 0)
    IN  [state |-> st,
         response |-> <<RESP_OK, status_flags, (st.coins_available \div 256) % 256,
                        st.coins_available % 256>>,
         spawn |-> NoSpawn]

\* a status handler that clears the busy flag as it reports it
handle_status_clearsBusy(st) ==
    LET status_flags == (IF low_coin(st) THEN 1 ELSE 0) + (IF st.lid_open THEN 2 ELSE 0)
                      + (IF st.fault THEN 4 ELSE 0) + (IF st.busy THEN 8 ELSE 0)
    IN  [state |-> [st EXCEPT !.busy = FALSE],
         response |-> <<RESP_OK, status_flags, (st.coins_available \div 256) % 256,
                        st.coins_available % 256>>,
         spawn |-> NoSpawn]

\* _handle_status
handle_status(st) ==
    LET status_flags == (IF low_coin(st) THEN 1 ELSE 0) + (IF st.lid_open THEN 2 ELSE 0)
                      + (IF st.fault THEN 4 ELSE 0) + (IF st.busy THEN 8 ELSE 0)
        coins_high == (st.coins_available \div 256) % 256
        coins_low  == st.coins_available % 256
    IN  [state |-> st, response |-> <<RESP_OK, status_flags, coins_high, coins_low>>,
         spawn |-> NoSpawn]

\* a jam test that is off by one: 11 coins do not trigger it
JamTriggers_above11(st, coins_requested) == st.jam_simulation /\ coins_requested > 11

\* _handle_dispense, "Simulate jam condition"
JamTriggers(st, coins_requested) == st.jam_simulation /\ coins_requested > 10

\* the checks without the busy test
DispenseRejection_noBusy(st, coins_requested) ==
    IF st.fault THEN <<RESP_FAULT>>
    ELSE IF st.lid_open THEN <<RESP_LID_OPEN>>
    ELSE IF coins_requested > st.coins_available THEN <<RESP_LOW_COIN>>
    ELSE <<>>

\* the checks without the inventory test
DispenseRejection_noLowCoin(st, coins_requested) ==
    IF st.fault THEN <<RESP_FAULT>>
    ELSE IF st.lid_open THEN <<RESP_LID_OPEN>>
    ELSE IF st.busy THEN <<RESP_BUSY>>
    ELSE <<>>

\* the checks with the lid tested before the fault
DispenseRejection_lidFirst(st, coins_requested) ==
    IF st.lid_open THEN <<RESP_LID_OPEN>>
    ELSE IF st.fault THEN <<RESP_FAULT>>
    ELSE IF st.busy THEN <<RESP_BUSY>>
    ELSE IF coins_requested > st.coins_available THEN <<RESP_LOW_COIN>>
    ELSE <<>>

\* _handle_dispense, "Check for fault conditions": the body of the rejection,
\* or <<>> when the four checks pass
DispenseRejection(st, coins_requested) ==
    IF st.fault THEN <<RESP_FAULT>>
    ELSE IF st.lid_open THEN <<RESP_LID_OPEN>>
    ELSE IF st.busy THEN <<RESP_BUSY>>
    ELSE IF coins_requested > st.coins_available THEN <<RESP_LOW_COIN>>
    ELSE <<>>

\* _handle_dispense
handle_dispense(st, data) ==
    IF Len(data) < 2
    THEN [state |-> st, response |-> <<RESP_ERROR>>, spawn |-> NoSpawn]
    ELSE LET coins_requested == data[1] * 256 + data[2] IN
         IF DispenseRejection(st, coins_requested) # <<>>
         THEN [state |-> st, response |-> DispenseRejection(st, coins_requested),
               spawn |-> NoSpawn]
         ELSE IF JamTriggers(st, coins_requested)
         THEN [state |-> [st EXCEPT !.fault = TRUE], response |-> <<RESP_FAULT>>,
               spawn |-> NoSpawn]
         ELSE [state |-> st, response |-> <<RESP_OK>>,
               spawn |-> [kind |-> "dispense", coins |-> coins_requested]]

\* a reset that leaves the jam simulation on
handle_reset_keepsJam(st) ==
    [state |-> [st EXCEPT !.fault = FALSE, !.busy = FALSE, !.lid_open = FALSE],
     response |-> <<RESP_OK>>, spawn |-> NoSpawn]

\* _handle_reset
handle_reset(st) ==
    [state |-> [st EXCEPT !.fault = FALSE, !.busy = FALSE, !.lid_open = FALSE,
                          !.jam_simulation = FALSE],
     response |-> <<RESP_OK>>, spawn |-> NoSpawn]

\* _handle_calibrate
handle_calibrate(st) ==
    [state |-> st, response |-> <<RESP_OK>>, spawn |-> [kind |-> "calibrate", coins |-> 0]]

\* _process_command
process_command(st, command, data) ==
    IF command = CMD_STATUS THEN handle_status(st)
    ELSE IF command = CMD_DISPENSE THEN handle_dispense(st, data)
    ELSE IF command = CMD_RESET THEN handle_reset(st)
    ELSE IF command = CMD_CALIBRATE THEN handle_calibrate(st)
    ELSE [state |-> st, response |-> <<RESP_ERROR>>, spawn |-> NoSpawn]

\* a completion that is skipped when the device is in fault
CompleteDispense_unlessFault(st, coins) ==
    IF st.fault THEN [st EXCEPT !.busy = FALSE]
    ELSE [st EXCEPT !.coins_available = st.coins_available - coins,
                    !.total_dispensed = st.total_dispensed + coins,
                    !.busy = FALSE]

\* a completion that deducts the coins but forgets the running total
CompleteDispense_noTotal(st, coins) ==
    [st EXCEPT !.coins_available = st.coins_available - coins, !.busy = FALSE]

\* _simulate_dispense after the sleep: "Update state"
CompleteDispense(st, coins) ==
    [st EXCEPT !.coins_available = st.coins_available - coins,
               !.total_dispensed = st.total_dispensed + coins,
               !.busy = FALSE]

\* the sleep of a task in units of 50 ms: min(coins * 0.05, 5.0) for a dispense,
\* 3.0 s for a calibration
SleepTime(task) == IF task.kind = "calibrate" THEN 60
                   ELSE IF task.coins < 100 THEN task.coins ELSE 100

\* MockTFlexServer._handle_client builds its MockTFlexProtocol itself and
\* connection_made is never called on it: the protocol has no transport
ProtocolTransport(c) == FALSE

-----------------------------------------------------------------------------
(* SpecSim: the simulator process.  One asyncio event loop runs the client
   handlers (MockTFlexServer._handle_client), the background tasks created by
   the command handlers, and, with --interactive, the operator console.
   `ready` is the loop's FIFO of callbacks; a step of the loop runs the
   callback at its head to its next await. *)

\* request frames delivered in one run of the model
MaxFrames == 2

\* frames that may arrive in one read
MaxPipelined == 2

\* --coins: the default inventory
InitialCoins == {1000}

\* a request frame as _handle_packet accepts it: checksum over LEN, command, data
ValidFrame(command, data) ==
    LET head == <<Len(data) + 1, command>> \o data
    IN  <<STX>> \o head \o <<Mock_calculate_crc(head), ETX>>

\* the requests clients send: STATUS, DISPENSE of 5 and of 11 coins, a
\* DISPENSE without its count, RESET, CALIBRATE
SimRequests ==
    { ValidFrame(CMD_STATUS, <<>>),
      ValidFrame(CMD_DISPENSE, <<0, 5>>),
      ValidFrame(CMD_DISPENSE, <<0, 11>>),
      ValidFrame(CMD_DISPENSE, <<5>>),
      ValidFrame(CMD_RESET, <<>>),
      ValidFrame(CMD_CALIBRATE, <<>>) }

RECURSIVE Flatten(_)
Flatten(frames) == IF frames = <<>> THEN <<>> ELSE Head(frames) \o Flatten(Tail(frames))

\* what one read may deliver: 1..MaxPipelined request frames
SimChunks == { fs \in SeqsUpTo(SimRequests, MaxPipelined) : fs # <<>> }

\* console lines: refill without argument, with 8 and with 70000 (more than
\* two bytes hold), and the other commands
ConsoleLines ==
    { <<"status">>, <<"refill">>, <<"refill", 8>>, <<"refill", 70000>>, <<"jam">>,
      <<"fault">>, <<"lid">>, <<"lid", "open">>, <<"lid", "close">>, <<"reset">> }

SimInit ==
    /\ state \in { [DefaultState EXCEPT !.coins_available = n] : n \in InitialCoins }
    /\ cliActive \in BOOLEAN
    /\ readerBuf = [c \in Conns |-> <<>>]
    /\ buffer = [c \in Conns |-> <<>>]
    /\ ready = <<>>
    /\ tasks = {}
    /\ taskSeq = 0
    /\ delivered = 0
    /\ events = <<>>

\* a console whose `fault` command sets the flag instead of toggling it
process_cli_command_faultSets(st, parts) ==
    IF parts[1] = "refill"
    THEN [st EXCEPT !.coins_available = IF Len(parts) > 1 THEN parts[2] ELSE 1000]
    ELSE IF parts[1] = "jam" THEN [st EXCEPT !.jam_simulation = TRUE]
    ELSE IF parts[1] = "fault" THEN [st EXCEPT !.fault = TRUE]
    ELSE IF parts[1] = "lid"
    THEN [st EXCEPT !.lid_open = IF Len(parts) > 1 THEN parts[2] = "open" ELSE ~st.lid_open]
    ELSE IF parts[1] = "reset"
    THEN [st EXCEPT !.fault = FALSE, !.busy = FALSE, !.lid_open = FALSE,
                    !.jam_simulation = FALSE]
    ELSE st

\* MockTFlexCLI._process_cli_command
process_cli_command(st, parts) ==
    IF parts[1] = "refill"
    THEN [st EXCEPT !.coins_available = IF Len(parts) > 1 THEN parts[2] ELSE 1000]
    ELSE IF parts[1] = "jam" THEN [st EXCEPT !.jam_simulation = TRUE]
    ELSE IF parts[1] = "fault" THEN [st EXCEPT !.fault = ~st.fault]
    ELSE IF parts[1] = "lid"
    THEN [st EXCEPT !.lid_open = IF Len(parts) > 1 THEN parts[2] = "open" ELSE ~st.lid_open]
    ELSE IF parts[1] = "reset"
    THEN [st EXCEPT !.fault = FALSE, !.busy = FALSE, !.lid_open = FALSE,
                    !.jam_simulation = FALSE]
    ELSE st

\* run_interactive: input() returns a line and the command is processed.  The
\* coroutine never suspends between lines, so no other callback of the loop
\* runs until it ends.  `events` keeps the latest two commands, newest first.
ConsoleCommand(parts) ==
    /\ cliActive
    /\ state' = process_cli_command(state, parts)
    /\ events' = <<[kind |-> "console", parts |-> parts, pre |-> state]>>
                  \o (IF events = <<>> THEN <<>> ELSE <<events[1]>>)
    /\ UNCHANGED <<cliActive, readerBuf, buffer, ready, tasks, taskSeq, delivered>>
    /\ UNCHANGED <<codecVars, driverVars, apiVars>>

\* quit, exit, EOF or Ctrl-C ends the console; the loop serves from then on
ConsoleQuit ==
    /\ cliActive
    /\ cliActive' = FALSE
    /\ events' = <<>>
    /\ UNCHANGED <<state, readerBuf, buffer, ready, tasks, taskSeq, delivered>>
    /\ UNCHANGED <<codecVars, driverVars, apiVars>>

InReady(item) == \E i \in 1..Len(ready) : ready[i] = item

\* bytes arrive on connection c: the stream reader is fed and the handler
\* waiting in reader.read(1024) is scheduled
DataArrives(c, frames) ==
    /\ ~cliActive
    /\ readerBuf[c] = <<>>
    /\ delivered + Len(frames) <= MaxFrames
    /\ delivered' = delivered + Len(frames)
    /\ readerBuf' = [readerBuf EXCEPT ![c] = Flatten(frames)]
    /\ ready' = IF InReady([kind |-> "client", id |-> c]) THEN ready
                ELSE Append(ready, [kind |-> "client", id |-> c])
    /\ events' = <<>>
    /\ UNCHANGED <<state, cliActive, buffer, tasks, taskSeq>>
    /\ UNCHANGED <<codecVars, driverVars, apiVars>>

\* connections whose accepted DISPENSE has not completed
PendingDispense(ts) == {t.conn : t \in {u \in ts : u.kind = "dispense"}}

\* _handle_packet for the packets cut from the buffer, in order: the decoded
\* command is processed, its task (if any) is created and its response is
\* passed to _send_response
RECURSIVE HandlePackets(_, _, _, _, _)
HandlePackets(c, packets, st, spawned, evs) ==
    IF packets = <<>> THEN [state |-> st, spawned |-> spawned, events |-> evs]
    ELSE
      LET dec == DecodePacket(Head(packets)) IN
      IF ~dec.ok
      THEN HandlePackets(c, Tail(packets), st, spawned,
               Append(evs, [kind |-> "dropped", conn |-> c, why |-> dec.why]))
      ELSE
        LET r    == process_command(st, dec.command, dec.data)
            new  == IF r.spawn.kind = "none" THEN <<>>
                    ELSE <<[id |-> taskSeq + Len(spawned) + 1, kind |-> r.spawn.kind,
                            coins |-> r.spawn.coins, conn |-> c, at |-> "created"]>>
            live == tasks \cup {spawned[i] : i \in 1..Len(spawned)}
            ev   == [kind |-> "packet", conn |-> c, command |-> dec.command,
                     data |-> dec.data, pre |-> st, post |-> r.state,
                     response |-> r.response, spawn |-> r.spawn,
                     pending |-> PendingDispense(live),
                     sent |-> send_response(ProtocolTransport(c), r.response)]
        IN  HandlePackets(c, Tail(packets), r.state, spawned \o new, Append(evs, ev))

\* _handle_client resumes from reader.read: data_received extends the
\* protocol's buffer and _process_buffer handles every complete packet in it
ClientStep(c) ==
    LET cut == process_buffer(buffer[c] \o readerBuf[c], <<>>)
        h   == HandlePackets(c, cut.packets, state, <<>>, <<>>)
    IN  /\ state' = h.state
        /\ buffer' = [buffer EXCEPT ![c] = cut.rest]
        /\ readerBuf' = [readerBuf EXCEPT ![c] = <<>>]
        /\ tasks' = tasks \cup {h.spawned[i] : i \in 1..Len(h.spawned)}
        /\ taskSeq' = taskSeq + Len(h.spawned)
        /\ ready' = Tail(ready) \o
                    [i \in 1..Len(h.spawned) |-> [kind |-> "task", id |-> h.spawned[i].id]]
        /\ events' = <<[kind |-> "read", conn |-> c, before |-> buffer[c],
                         data |-> readerBuf[c], after |-> cut.rest, pre |-> state]>>
                      \o h.events
        /\ UNCHANGED <<cliActive, delivered>>

TaskById(id) == CHOOSE t \in tasks : t.id = id

\* first step of _simulate_dispense / _simulate_calibration: busy = True, then
\* await asyncio.sleep(...); sleep(0) only yields, so the task is ready again
TaskStart(t) ==
    /\ state' = [state EXCEPT !.busy = TRUE]
    /\ IF SleepTime(t) = 0
       THEN /\ tasks' = (tasks \ {t}) \cup {[t EXCEPT !.at = "woken"]}
            /\ ready' = Append(Tail(ready), [kind |-> "task", id |-> t.id])
       ELSE /\ tasks' = (tasks \ {t}) \cup {[t EXCEPT !.at = "sleeping"]}
            /\ ready' = Tail(ready)
    /\ events' = <<[kind |-> "start", task |-> t, pre |-> state]>>
    /\ UNCHANGED <<cliActive, readerBuf, buffer, taskSeq, delivered>>

\* the step after the sleep: the task updates the state and ends
TaskFinish(t) ==
    /\ state' = IF t.kind = "dispense" THEN CompleteDispense(state, t.coins)
                ELSE [state EXCEPT !.busy = FALSE]
    /\ tasks' = tasks \ {t}
    /\ ready' = Tail(ready)
    /\ events' = <<[kind |-> "completion", task |-> t, pre |-> state]>>
    /\ UNCHANGED <<cliActive, readerBuf, buffer, taskSeq, delivered>>

\* the loop runs the callback at the head of its ready queue: a client handler
RunClient ==
    /\ ~cliActive
    /\ ready # <<>>
    /\ Head(ready).kind = "client"
    /\ ClientStep(Head(ready).id)
    /\ UNCHANGED <<codecVars, driverVars, apiVars>>

\* ... a task that has not run yet
RunTaskStart ==
    /\ ~cliActive
    /\ ready # <<>>
    /\ Head(ready).kind = "task"
    /\ TaskById(Head(ready).id).at = "created"
    /\ TaskStart(TaskById(Head(ready).id))
    /\ UNCHANGED <<codecVars, driverVars, apiVars>>

\* ... a task whose sleep is over
RunTaskFinish ==
    /\ ~cliActive
    /\ ready # <<>>
    /\ Head(ready).kind = "task"
    /\ TaskById(Head(ready).id).at = "woken"
    /\ TaskFinish(TaskById(Head(ready).id))
    /\ UNCHANGED <<codecVars, driverVars, apiVars>>

\* the timer of a sleeping task expires.  Tasks start in the order of their
\* identifiers, so a timer cannot expire before that of an earlier task whose
\* sleep is not longer.
TimerFires(t) ==
    /\ ~cliActive
    /\ t \in tasks
    /\ t.at = "sleeping"
    /\ \A u \in tasks : (u.at = "sleeping" /\ u.id < t.id) => SleepTime(u) > SleepTime(t)
    /\ tasks' = (tasks \ {t}) \cup {[t EXCEPT !.at = "woken"]}
    /\ ready' = Append(ready, [kind |-> "task", id |-> t.id])
    /\ events' = <<>>
    /\ UNCHANGED <<state, cliActive, readerBuf, buffer, taskSeq, delivered>>
    /\ UNCHANGED <<codecVars, driverVars, apiVars>>

SimNext ==
    \/ \E parts \in ConsoleLines : ConsoleCommand(parts)
    \/ ConsoleQuit
    \/ \E c \in Conns, frames \in SimChunks : DataArrives(c, frames)
    \/ RunClient
    \/ RunTaskStart
    \/ RunTaskFinish
    \/ \E t \in tasks : TimerFires(t)

InitSim == SimInit /\ CodecIdle /\ DriverInit /\ ApiIdle

SpecSim == InitSim /\ [][SimNext]_vars

\* ENABLED <<RunClient>>_vars: a client handler heads the ready queue (the step
\* is total and always takes the handler off the queue)
RunClientEnabled == ~cliActive /\ ready # <<>> /\ Head(ready).kind = "client"

\* the event loop runs every ready callback and fires every due timer: weak
\* fairness of each step of the loop (for RunClient, WF_vars(RunClient) with
\* its ENABLED written out)
SimFairness ==
    /\ ([]<>~RunClientEnabled) \/ ([]<><<RunClient>>_vars)
    /\ WF_vars(RunTaskStart)
    /\ WF_vars(RunTaskFinish)
    /\ WF_vars(\E t \in tasks : TimerFires(t))

SpecSimLive == InitSim /\ [][SimNext]_vars /\ SimFairness

-----------------------------------------------------------------------------
(* SpecStream: the simulator's receive path fed with a byte stream that TCP
   cuts anywhere.  One client writes request frames, whole, in pieces, or
   damaged on the way; each read of _handle_client delivers one chunk to
   data_received.  The event loop and the handlers are those of SpecSim,
   without the console. *)

\* chunks read in one run of the model
MaxChunks == 2

\* the connection the client writes on
StreamConn == 1

\* the well-formed requests of the stream: STATUS and DISPENSE of 5 coins
StreamRequests == { ValidFrame(CMD_STATUS, <<>>), ValidFrame(CMD_DISPENSE, <<0, 5>>) }

\* frame f with byte i replaced by v
Damaged(f, i, v) == [f EXCEPT ![i] = v]

\* malformed frames: a STATUS request whose END, CHECK or LEN byte was damaged
\* on the way (LEN 1 read as 3, and as 0)
BadEnd     == Damaged(ValidFrame(CMD_STATUS, <<>>), 5, 0)
BadCheck   == Damaged(ValidFrame(CMD_STATUS, <<>>), 4,
                      (ValidFrame(CMD_STATUS, <<>>)[4] + 1) % 256)
BadLenHigh == Damaged(ValidFrame(CMD_STATUS, <<>>), 2, 3)
BadLenLow  == Damaged(ValidFrame(CMD_STATUS, <<>>), 2, 0)

MalformedFrames == { BadEnd, BadCheck, BadLenHigh, BadLenLow }

\* the proper prefixes of a frame, 1 .. len - 1 bytes
ProperPrefixes(f) == { SubSeq(f, 1, k) : k \in 1..(Len(f) - 1) }

\* what is left of a frame after each proper prefix
Remainders(f) == { SubSeq(f, k + 1, Len(f)) : k \in 1..(Len(f) - 1) }

\* what one read may deliver: a request, a piece of one, a malformed frame, or
\* a malformed frame with the next request behind it
StreamChunks ==
    StreamRequests
    \cup UNION { ProperPrefixes(f) \cup Remainders(f) : f \in StreamRequests }
    \cup MalformedFrames
    \cup { m \o f : m \in MalformedFrames, f \in StreamRequests }

\* bytes arrive on connection c: the stream reader is fed and the handler
\* waiting in reader.read(1024) is scheduled
BytesArrive(c, chunk) ==
    /\ ~cliActive
    /\ readerBuf[c] = <<>>
    /\ delivered < MaxChunks
    /\ delivered' = delivered + 1
    /\ readerBuf' = [readerBuf EXCEPT ![c] = chunk]
    /\ ready' = IF InReady([kind |-> "client", id |-> c]) THEN ready
                ELSE Append(ready, [kind |-> "client", id |-> c])
    /\ events' = <<>>
    /\ UNCHANGED <<state, cliActive, buffer, tasks, taskSeq>>
    /\ UNCHANGED <<codecVars, driverVars, apiVars>>

StreamNext ==
    \/ \E chunk \in StreamChunks : BytesArrive(StreamConn, chunk)
    \/ RunClient
    \/ RunTaskStart
    \/ RunTaskFinish
    \/ \E t \in tasks : TimerFires(t)

InitStream == SimInit /\ ~cliActive /\ CodecIdle /\ DriverInit /\ ApiIdle

SpecStream == InitStream /\ [][StreamNext]_vars

-----------------------------------------------------------------------------
(* SpecLine: single frames on a line that may flip one bit.  A well-formed
   frame (a request as the simulator accepts it, a response as the simulator
   builds it, or the frame with LEN = 0) is put on the wire, one bit of one
   BODY byte may be flipped on the way or stray bytes may precede the frame,
   and the receiving side runs its whole receive path on the bytes: the
   simulator data_received on an empty buffer, the driver its wait loop and
   validation. *)

\* BODY of the requests sent: STATUS, DISPENSE of 5 coins, RESET, CALIBRATE
LineRequests == { <<CMD_STATUS>>, <<CMD_DISPENSE, 0, 5>>, <<CMD_RESET>>, <<CMD_CALIBRATE>> }

\* BODY of the responses sent: OK, BUSY, and a STATUS answer
LineResponses == { <<RESP_OK>>, <<RESP_BUSY>>, <<RESP_OK, 5, 3, 232>> }

\* the frame with LEN = 0: START, 0, CHECK over the LEN byte, END
EmptyFrame == <<STX, 0, Mock_calculate_crc(<<0>>), ETX>>

\* the frame for a BODY, from its sender
LineFrame(dir, body) ==
    IF body = <<>> THEN EmptyFrame
    ELSE IF dir = "request" THEN ValidFrame(Head(body), Tail(body))
    ELSE send_response(TRUE, body)

\* byte x with bit i flipped
FlipBit(x, i) == IF Bit(x, i) = 1 THEN x - 2 ^ i ELSE x + 2 ^ i

\* device states the simulator is in when the frame arrives
LineStates == { DefaultState, [DefaultState EXCEPT !.lid_open = TRUE, !.jam_simulation = TRUE] }

\* stray bytes ahead of a frame: one or two bytes, none of them START
LineNoise == { <<0>>, <<ETX>>, <<255>>, <<ETX, 0>>, <<255, 255>> }

LineInit ==
    /\ cpc = "input"
    /\ cin \in { [dir |-> dir, body |-> body, damage |-> "none", byte |-> 0, bit |-> 0,
                   noise |-> <<>>, state |-> st] :
                     dir \in {"request", "response"},
                     body \in LineRequests \cup LineResponses \cup {<<>>},
                     st \in LineStates }
              \cup UNION { { [dir |-> dir, body |-> body, damage |-> "flip", byte |-> k,
                                bit |-> i, noise |-> <<>>, state |-> st] :
                                  dir \in {"request", "response"},
                                  k \in 1..Len(body), i \in 0..7, st \in LineStates } :
                            body \in LineRequests \cup LineResponses }
              \cup { [dir |-> dir, body |-> body, damage |-> "noise", byte |-> 0,
                      bit |-> 0, noise |-> noise, state |-> st] :
                        dir \in {"request", "response"},
                        body \in LineRequests \cup LineResponses,
                        noise \in LineNoise, st \in LineStates }
    /\ cin.dir = "request" => cin.body \in LineRequests \cup {<<>>}
    /\ cin.dir = "response" => cin.body \in LineResponses \cup {<<>>}
    /\ cin.dir = "response" => cin.state = DefaultState
    /\ cwire = <<>>
    /\ cres = [outcome |-> "none"]

\* the sender writes the frame and the line delivers it unchanged
LineDelivers ==
    /\ cpc = "input" /\ cin.damage = "none"
    /\ cwire' = LineFrame(cin.dir, cin.body)
    /\ cpc' = "framed"
    /\ UNCHANGED <<cin, cres>>
    /\ UNCHANGED <<driverVars, simVars, apiVars>>

\* ... or with one bit of BODY byte cin.byte flipped
LineFlipsBit ==
    /\ cpc = "input" /\ cin.damage = "flip"
    /\ LET frame == LineFrame(cin.dir, cin.body) IN
       cwire' = [frame EXCEPT ![2 + cin.byte] = FlipBit(frame[2 + cin.byte], cin.bit)]
    /\ cpc' = "framed"
    /\ UNCHANGED <<cin, cres>>
    /\ UNCHANGED <<driverVars, simVars, apiVars>>

\* ... or behind stray bytes
LineAddsNoise ==
    /\ cpc = "input" /\ cin.damage = "noise"
    /\ cwire' = cin.noise \o LineFrame(cin.dir, cin.body)
    /\ cpc' = "framed"
    /\ UNCHANGED <<cin, cres>>
    /\ UNCHANGED <<driverVars, simVars, apiVars>>

\* data_received on an empty buffer: _process_buffer, then _handle_packet,
\* _process_command and _send_response for every packet cut
SimulatorReceives ==
    /\ cpc = "framed" /\ cin.dir = "request"
    /\ LET cut == process_buffer(cwire, <<>>)
           h   == HandlePackets(StreamConn, cut.packets, cin.state, <<>>, <<>>)
       IN  cres' = [outcome |-> "handled", events |-> h.events, state |-> h.state,
                    spawned |-> h.spawned, rest |-> cut.rest]
    /\ cpc' = "received"
    /\ UNCHANGED <<cin, cwire>>
    /\ UNCHANGED <<driverVars, simVars, apiVars>>

\* _send_command from the wait loop on: the bytes arrive, then nothing more
DriverReceives ==
    /\ cpc = "framed" /\ cin.dir = "response"
    /\ cres' = ReadLoop(<<>>, cwire)
    /\ cpc' = "received"
    /\ UNCHANGED <<cin, cwire>>
    /\ UNCHANGED <<driverVars, simVars, apiVars>>

LineNext ==
    \/ LineDelivers
    \/ LineFlipsBit
    \/ LineAddsNoise
    \/ SimulatorReceives
    \/ DriverReceives

InitLine == LineInit /\ DriverInit /\ SimIdle /\ ApiIdle

SpecLine == InitLine /\ [][LineNext]_vars

-----------------------------------------------------------------------------
(* Simulator claims.  They read `events`, the record of what the latest step of
   the loop did: for a client handler's step, the bytes read and the buffer
   before and after; for each packet handled, the state before and after, the
   response body the handler returned, the task it created and the connections
   whose accepted DISPENSE had not completed. *)

\* DISPENSE packets that carry their two-byte count, handled in the latest step
DispenseEvents ==
    { e \in {events[i] : i \in 1..Len(events)} :
        e.kind = "packet" /\ e.command = CMD_DISPENSE /\ Len(e.data) >= 2 }

\* completions of dispense tasks run in the latest step
CompletionEvents ==
    { e \in {events[i] : i \in 1..Len(events)} :
        e.kind = "completion" /\ e.task.kind = "dispense" }

CountOf(e) == e.data[1] * 256 + e.data[2]

Rejected(e) == e.spawn.kind = "none" /\ e.post = e.pre

\* C5: no race on inventory between connections. A DISPENSE handled while a
\* DISPENSE accepted from another connection has not completed (device neither
\* in fault nor lid-open) is answered BUSY and schedules no completion.
C5_NoInventoryRace ==
    \A e \in DispenseEvents :
        ((e.pending \ {e.conn}) # {} /\ ~e.pre.fault /\ ~e.pre.lid_open) =>
            (e.response = <<RESP_BUSY>> /\ e.spawn.kind = "none")

\* C6 as stated, its synchronous half: a DISPENSE of n coins handled with
\* coinsAvailable >= n and no fault, open lid or busy flag is answered OK.
C6_InventoryConservation_Original ==
    \A e \in DispenseEvents :
        (CountOf(e) <= e.pre.coins_available
            /\ ~e.pre.fault /\ ~e.pre.lid_open /\ ~e.pre.busy) =>
        e.response = <<RESP_OK>>

C6_Accepted ==
    \A e \in DispenseEvents :
        (CountOf(e) <= e.pre.coins_available
            /\ ~e.pre.fault /\ ~e.pre.lid_open /\ ~e.pre.busy
            /\ ~(e.pre.jam_simulation /\ CountOf(e) > 10)) =>
        /\ e.response = <<RESP_OK>>
        /\ e.spawn = [kind |-> "dispense", coins |-> CountOf(e)]
        /\ e.post = e.pre

C6_Exact ==
    \A e \in CompletionEvents :
        /\ state.coins_available = e.pre.coins_available - e.task.coins
        /\ state.total_dispensed = e.pre.total_dispensed + e.task.coins

C6_Scheduled(k) == \E t \in tasks : t.id = k /\ t.kind = "dispense"

C6_Completed(k) == \E e \in CompletionEvents : e.task.id = k

\* C6 amended: inventory conservation. A DISPENSE of n coins handled with
\* coinsAvailable >= n, no fault, lid closed, not busy, and not jammed (jam
\* simulation off or n <= 10) is answered OK and schedules a completion for n;
\* every scheduled completion eventually fires, and when it fires
\* coinsAvailable drops by exactly n and totalDispensed rises by exactly n.
C6_InventoryConservation ==
    /\ [](C6_Accepted /\ C6_Exact)
    /\ \A k \in 1..MaxFrames : C6_Scheduled(k) ~> C6_Completed(k)

\* a dispense of 5 coins has completed: 1000 coins before, 995 after
C6_Witness ==
    \E e \in CompletionEvents :
        /\ e.task.coins = 5 /\ e.pre.coins_available = 1000
        /\ state.coins_available = 995 /\ state.total_dispensed = 5

\* C7 as stated: a DISPENSE handled while busy is answered BUSY, schedules no
\* completion and changes nothing.
C7_BusyExclusion_Original ==
    \A e \in DispenseEvents :
        e.pre.busy => (e.response = <<RESP_BUSY>> /\ Rejected(e))

\* C7 amended: a DISPENSE handled while busy schedules no completion and
\* changes no field of the state; it is answered BUSY when the device is
\* neither in fault nor lid-open (FAULT and LID_OPEN otherwise).
C7_BusyExclusion ==
    \A e \in DispenseEvents :
        e.pre.busy =>
            /\ Rejected(e)
            /\ e.response = IF e.pre.fault THEN <<RESP_FAULT>>
                            ELSE IF e.pre.lid_open THEN <<RESP_LID_OPEN>>
                            ELSE <<RESP_BUSY>>

\* a DISPENSE was answered BUSY while an accepted dispense was in flight
C7_Witness ==
    \E e \in DispenseEvents :
        /\ e.pre.busy /\ e.pending # {} /\ e.response = <<RESP_BUSY>>
        /\ CountOf(e) <= e.pre.coins_available

\* C8 as stated: a DISPENSE of n > coinsAvailable changes nothing, schedules no
\* completion and is answered LOW_COIN.
C8_LowCoin_Original ==
    \A e \in DispenseEvents :
        CountOf(e) > e.pre.coins_available =>
            (e.response = <<RESP_LOW_COIN>> /\ Rejected(e))

\* C8 amended: a DISPENSE of n > coinsAvailable changes nothing and schedules
\* no completion; it is answered LOW_COIN when the device is not in fault, not
\* lid-open and not busy.
C8_LowCoin ==
    \A e \in DispenseEvents :
        CountOf(e) > e.pre.coins_available =>
            /\ Rejected(e)
            /\ (~e.pre.fault /\ ~e.pre.lid_open /\ ~e.pre.busy) =>
                    e.response = <<RESP_LOW_COIN>>

\* 11 coins were requested from an inventory of 8 and LOW_COIN was answered
C8_Witness ==
    \E e \in DispenseEvents :
        /\ CountOf(e) = 11 /\ e.pre.coins_available = 8
        /\ e.response = <<RESP_LOW_COIN>>

\* C9: synchronous rejection. FAULT if fault holds, else LID_OPEN if the lid
\* is open, else BUSY if busy, else LOW_COIN if the count exceeds
\* coinsAvailable; each rejection schedules no completion and changes no field.
C9_RejectionPriority ==
    \A e \in DispenseEvents :
        /\ e.pre.fault => (e.response = <<RESP_FAULT>> /\ Rejected(e))
        /\ (~e.pre.fault /\ e.pre.lid_open) =>
               (e.response = <<RESP_LID_OPEN>> /\ Rejected(e))
        /\ (~e.pre.fault /\ ~e.pre.lid_open /\ e.pre.busy) =>
               (e.response = <<RESP_BUSY>> /\ Rejected(e))
        /\ (~e.pre.fault /\ ~e.pre.lid_open /\ ~e.pre.busy
                /\ CountOf(e) > e.pre.coins_available) =>
               (e.response = <<RESP_LOW_COIN>> /\ Rejected(e))

\* fault, open lid and too few coins held together and FAULT was answered
C9_Witness ==
    \E e \in DispenseEvents :
        /\ e.pre.fault /\ e.pre.lid_open /\ CountOf(e) > e.pre.coins_available
        /\ e.response = <<RESP_FAULT>>

ResetEvents ==
    { e \in {events[i] : i \in 1..Len(events)} :
        e.kind = "packet" /\ e.command = CMD_RESET }

\* C11: RESET restores the inventory. After a RESET is handled, coinsAvailable
\* equals the coin count the simulator was started with, whatever was
\* dispensed before.
C11_ResetRestoresCoins ==
    \A e \in ResetEvents :
        e.pre.total_dispensed > 0 => e.post.coins_available \in InitialCoins

\* C12: RESET, handled in any device state, clears fault, busy, lidOpen and
\* jamSimulationEnabled and is answered OK.
C12_ResetClearsFlags ==
    \A e \in ResetEvents :
        /\ e.response = <<RESP_OK>>
        /\ ~e.post.fault /\ ~e.post.busy /\ ~e.post.lid_open /\ ~e.post.jam_simulation
        /\ state = e.post

\* a RESET was handled with all four flags set
C12_Witness ==
    \E e \in ResetEvents :
        /\ e.pre.fault /\ e.pre.busy /\ e.pre.lid_open /\ e.pre.jam_simulation
        /\ e.response = <<RESP_OK>> /\ ~state.fault /\ ~state.busy

C13_Exact ==
    \A e \in CompletionEvents :
        state = [e.pre EXCEPT !.coins_available = e.pre.coins_available - e.task.coins,
                              !.total_dispensed = e.pre.total_dispensed + e.task.coins,
                              !.busy = FALSE]

C13_InFlightUnderFault(k) == C6_Scheduled(k) /\ (state.fault \/ state.lid_open)

\* C13: no cancellation. Once a DISPENSE of n has been answered OK, its
\* completion fires also when fault is set or the lid is open in the meantime,
\* and it deducts exactly n coins and adds n to totalDispensed, changing
\* nothing else but the busy flag.
C13_NoCancellation ==
    /\ []C13_Exact
    /\ \A k \in 1..MaxFrames : C13_InFlightUnderFault(k) ~> C6_Completed(k)

\* an accepted dispense completed while the device was in fault (a jam
\* triggered by another request after the acceptance)
C13_Witness ==
    \E e \in CompletionEvents :
        /\ e.pre.fault
        /\ state.coins_available = e.pre.coins_available - e.task.coins
        /\ state.total_dispensed = e.pre.total_dispensed + e.task.coins

\* C14: every valid request frame received on a connection makes the simulator
\* emit exactly one framed response on that connection, in the order of the
\* requests: the bytes written for the i-th packet handled in a step are one
\* frame START, LEN, body, CHECK, END carrying the handler's response body.
C14_OneResponsePerRequest ==
    \A i \in 1..Len(events) :
        events[i].kind = "packet" =>
            /\ Len(events[i].sent) = Len(events[i].response) + 4
            /\ events[i].sent[1] = STX
            /\ events[i].sent[Len(events[i].sent)] = ETX
            /\ Slice(events[i].sent, 2, Len(events[i].sent) - 2) = events[i].response

\* the steps of _handle_client in the latest step of the loop (at most one)
ReadEvents == { e \in {events[i] : i \in 1..Len(events)} : e.kind = "read" }

\* the packets cut from the buffer in the latest step, handled or dropped
PacketEvents ==
    { i \in 1..Len(events) : events[i].kind \in {"packet", "dropped"} }

\* the latest step cut exactly one packet, request frame f, and executed it
DecodedOnce(f) ==
    /\ Cardinality(PacketEvents) = 1
    /\ \A i \in PacketEvents :
          /\ events[i].kind = "packet"
          /\ events[i].command = f[3]
          /\ events[i].data = SubSeq(f, 4, Len(f) - 2)

\* C21: truncated frames. While the bytes received are a proper prefix of a
\* valid request frame (1 byte up to the frame less one), the simulator cuts
\* no packet (none handled, none dropped), emits nothing, leaves the device
\* state alone and keeps the bytes in its buffer; when the read
\* that completes the frame arrives, the frame is cut and executed exactly
\* once and the buffer is empty.
C21_TruncatedFrames ==
    \A e \in ReadEvents, f \in StreamRequests :
        /\ (e.before \o e.data) \in ProperPrefixes(f) =>
              /\ PacketEvents = {}
              /\ state = e.pre
              /\ buffer[e.conn] = e.before \o e.data
        /\ (e.before \in ProperPrefixes(f) /\ e.before \o e.data = f) =>
              /\ DecodedOnce(f)
              /\ buffer[e.conn] = <<>>

\* six of the seven bytes of a DISPENSE frame were buffered and nothing was
\* done; the seventh arrived and the DISPENSE of 5 was accepted, once
C21_Witness ==
    \E e \in ReadEvents :
        /\ Len(e.before) = 6 /\ Len(e.data) = 1
        /\ e.before \o e.data = ValidFrame(CMD_DISPENSE, <<0, 5>>)
        /\ DecodedOnce(ValidFrame(CMD_DISPENSE, <<0, 5>>))
        /\ \E t \in tasks : t.kind = "dispense" /\ t.coins = 5

\* the latest step executed request frame f, and nothing else, from state st
ExecutedOnly(f, st) ==
    /\ \E i \in PacketEvents :
          /\ events[i].kind = "packet"
          /\ events[i].command = f[3]
          /\ events[i].data = SubSeq(f, 4, Len(f) - 2)
          /\ events[i].pre = st
    /\ Cardinality({ i \in PacketEvents : events[i].kind = "packet" }) = 1

\* the bytes received so far are malformed frame m followed by request f
RecoveryCase(e, m, f) == e.before \o e.data = m \o f

\* C24: malformed-frame recovery. A malformed frame (bad END, bad checksum, or
\* a damaged LEN byte) executes no command and changes no state, and the valid
\* request that follows it on the same stream is cut from the buffer,
\* executed on the unchanged state and answered.
C24_MalformedRecovery ==
    \A e \in ReadEvents, m \in MalformedFrames :
        /\ (e.before \o e.data = m) =>
              (state = e.pre /\ \A i \in PacketEvents : events[i].kind = "dropped")
        /\ \A f \in StreamRequests : RecoveryCase(e, m, f) => ExecutedOnly(f, e.pre)

\* STATUS packets handled in the latest step
StatusEvents ==
    { e \in {events[i] : i \in 1..Len(events)} :
        e.kind = "packet" /\ e.command = CMD_STATUS }

\* the flags byte of a STATUS answer tells the state's four conditions
FlagsOf(e) ==
    /\ e.response[2] < 16
    /\ (Bit(e.response[2], 0) = 1) = (e.pre.coins_available <= e.pre.low_coin_threshold)
    /\ (Bit(e.response[2], 1) = 1) = e.pre.lid_open
    /\ (Bit(e.response[2], 2) = 1) = e.pre.fault
    /\ (Bit(e.response[2], 3) = 1) = e.pre.busy

\* STATUS is answered OK with four bytes, changes nothing, schedules nothing
StatusAnswered(e) ==
    /\ Len(e.response) = 4 /\ e.response[1] = RESP_OK
    /\ FlagsOf(e)
    /\ e.post = e.pre
    /\ e.spawn.kind = "none"

\* C25 as stated: STATUS is answered OK in every device state, reports the
\* current flags and coin count, changes no field and schedules no task.
C25_StatusAlways_Original ==
    \A e \in StatusEvents :
        /\ StatusAnswered(e)
        /\ e.response[3] * 256 + e.response[4] = e.pre.coins_available

\* C25 amended: STATUS is answered OK in every device state, reports the
\* current flags, changes no field and schedules no task; the count it reports
\* is coinsAvailable when that is within 0..65535, and coinsAvailable modulo
\* 65536 otherwise.
C25_StatusAlways ==
    \A e \in StatusEvents :
        /\ StatusAnswered(e)
        /\ e.response[3] * 256 + e.response[4] =
              IF e.pre.coins_available \in 0..65535 THEN e.pre.coins_available
              ELSE e.pre.coins_available % 65536

\* STATUS was handled with the device busy, in fault, lid open and low on coins
C25_Witness ==
    \E e \in StatusEvents :
        /\ e.pre.busy /\ e.pre.fault /\ e.pre.lid_open /\ e.pre.coins_available = 8
        /\ e.response = <<RESP_OK, 15, 0, 8>>
        /\ state = e.pre

\* CALIBRATE packets handled in the latest step
CalibrateEvents ==
    { e \in {events[i] : i \in 1..Len(events)} :
        e.kind = "packet" /\ e.command = CMD_CALIBRATE }

\* completions of calibration tasks run in the latest step
CalibrationDone ==
    { e \in {events[i] : i \in 1..Len(events)} :
        e.kind = "completion" /\ e.task.kind = "calibrate" }

\* an accepted calibration whose completion has not fired
Calibrating == \E t \in tasks : t.kind = "calibrate"

\* states a and b agree on every field but busy
SameButBusy(a, b) == [a EXCEPT !.busy = b.busy] = b

\* C26: CALIBRATE is answered OK at once; from its acceptance until its
\* completion fires the device is Busy, and the completion leaves it not
\* busy; neither the handler nor the completion changes coinsAvailable,
\* totalDispensed, fault, lidOpen, lowCoinThreshold or jamSimulationEnabled.
C26_Calibrate ==
    /\ \A e \in CalibrateEvents :
          /\ e.response = <<RESP_OK>>
          /\ e.spawn.kind = "calibrate"
          /\ SameButBusy(e.pre, e.post)
    /\ Calibrating => state.busy
    /\ \A e \in CalibrationDone : ~state.busy /\ SameButBusy(e.pre, state)

-----------------------------------------------------------------------------
(* Claims about frames on the line.  They read `cin`, the frame sent and the
   damage done to it, and `cres`, what the receiving side made of it: for the
   simulator the packets handled or dropped, the state left, the tasks created
   and the bytes left in the buffer; for the driver the return or exception
   of _send_command. *)

OnLine(dir, damage) == cpc = "received" /\ cin.dir = dir /\ cin.damage = damage

\* C22: single-bit corruption. A frame that is valid except for one flipped
\* bit in a BODY byte is rejected for its checksum on both receive paths: the
\* simulator drops the packet, executes no command, creates no task and
\* leaves the device state unchanged; the driver raises the protocol error
\* "CRC mismatch in response" and returns no body.
C22_SingleBitCorruption ==
    /\ OnLine("request", "flip") =>
          /\ Len(cres.events) = 1
          /\ cres.events[1].kind = "dropped" /\ cres.events[1].why = "crc"
          /\ cres.state = cin.state
          /\ cres.spawned = <<>>
    /\ OnLine("response", "flip") =>
          /\ cres.outcome = "TFlexError" /\ cres.why = "crc"
          /\ cres.body = <<>>

\* a DISPENSE of 5 whose count byte arrived as 4 was dropped by the simulator
C22_Witness ==
    /\ OnLine("request", "flip")
    /\ cin.body = <<CMD_DISPENSE, 0, 5>> /\ cin.byte = 3 /\ cin.bit = 0
    /\ cwire[5] = 4
    /\ cres.events[1].kind = "dropped" /\ cres.state = cin.state

\* C23: the frame with LEN = 0 (START, 0, CHECK over the LEN byte, END) is
\* legal. Both decoders take it as a complete valid frame with an empty body:
\* the simulator cuts it from its buffer and finds no fault with its length,
\* framing or checksum; the driver returns the empty body.
C23_EmptyFrameLegal ==
    /\ (OnLine("request", "none") /\ cin.body = <<>>) =>
          /\ cres.rest = <<>>
          /\ Len(cres.events) = 1
          /\ cres.events[1].kind = "dropped" => cres.events[1].why = "empty"
    /\ (OnLine("response", "none") /\ cin.body = <<>>) =>
          /\ cres.outcome = "return"
          /\ cres.body = <<>>

\* C33: the decoder scans for START on both receive paths. Bytes that precede
\* the START of a valid frame, none of them START, are discarded and the
\* frame is still decoded: the simulator cuts it as one packet, executes its
\* command with its data and leaves nothing in the buffer; the driver returns
\* its body and does not time out.
C33_ScanForStart ==
    /\ OnLine("request", "noise") =>
          /\ cres.rest = <<>>
          /\ Len(cres.events) = 1
          /\ cres.events[1].kind = "packet"
          /\ cres.events[1].command = Head(cin.body)
          /\ cres.events[1].data = Tail(cin.body)
    /\ OnLine("response", "noise") =>
          /\ cres.outcome # "TFlexTimeoutError"
          /\ cres.outcome = "return" /\ cres.body = cin.body

-----------------------------------------------------------------------------
(* Driver operations: TFlex.status, TFlex.dispense, TFlex.reset on top of
   _send_command.  An operation yields the TFlex object it leaves, how it
   ended (a return or the exception raised), the frames it wrote and whether
   it took the lock. *)

\* no outcome code is part of the exception
NoCode == -1

\* a mock DISPENSE that deducts without looking at the counter
mock_command_noInventoryTest(coins, command, data) ==
    IF command = CMD_STATUS
    THEN [coins |-> coins,
          body  |-> <<RESP_OK, IF coins < 50 THEN 1 ELSE 0,
                      (coins \div 256) % 256, coins % 256>>]
    ELSE IF command = CMD_DISPENSE
    THEN IF Len(data) >= 2
         THEN [coins |-> coins - (data[1] * 256 + data[2]), body |-> <<RESP_OK>>]
         ELSE [coins |-> coins, body |-> <<RESP_ERROR>>]
    ELSE IF command = CMD_RESET THEN [coins |-> 1000, body |-> <<RESP_OK>>]
    ELSE [coins |-> coins, body |-> <<RESP_ERROR>>]

\* TFlex._mock_command: the body returned and the counter left
mock_command(coins, command, data) ==
    IF command = CMD_STATUS
    THEN [coins |-> coins,
          body  |-> <<RESP_OK, IF coins < 50 THEN 1 ELSE 0,
                      (coins \div 256) % 256, coins % 256>>]
    ELSE IF command = CMD_DISPENSE
    THEN IF Len(data) >= 2
         THEN LET coins_requested == data[1] * 256 + data[2] IN
              IF coins_requested > coins
              THEN [coins |-> coins, body |-> <<RESP_LOW_COIN>>]
              ELSE [coins |-> coins - coins_requested, body |-> <<RESP_OK>>]
         ELSE [coins |-> coins, body |-> <<RESP_ERROR>>]
    ELSE IF command = CMD_RESET THEN [coins |-> 1000, body |-> <<RESP_OK>>]
    ELSE [coins |-> coins, body |-> <<RESP_ERROR>>]

\* what the transport does during one call: the write raises SerialException,
\* or these bytes arrive and then nothing more
LineSupply(line) ==
    IF line.damage = "silent" THEN <<>>
    ELSE LET frame == send_response(TRUE, line.body) IN
         IF line.damage = "cut" THEN SubSeq(frame, 1, Len(frame) - 1)
         ELSE IF line.damage = "crc"
         THEN [frame EXCEPT ![Len(frame) - 1] = (frame[Len(frame) - 1] + 1) % 256]
         ELSE frame

\* the text of the exception _send_command raises
ErrorMessage(why) ==
    IF why = "unavailable" THEN "Serial connection not available"
    ELSE IF why = "serial" THEN "Serial communication error"
    ELSE IF why = "timeout" THEN "Command timeout"
    ELSE IF why = "length" THEN "Invalid response length"
    ELSE IF why = "framing" THEN "Invalid response framing"
    ELSE IF why = "crc" THEN "CRC mismatch in response"
    ELSE IF why = "error" THEN "T-Flex reported error"
    ELSE IF why = "fault" THEN "T-Flex hardware fault"
    ELSE ""

\* a _send_command that writes its request a second time when the wait loop
\* times out
send_command_retryOnTimeout(d, command, data, line) ==
    IF d.mock_mode
    THEN LET m == mock_command(d.mock_coins, command, data) IN
         [outcome |-> "return", why |-> "mock", body |-> m.body,
          mock_coins |-> m.coins, written |-> <<>>, locked |-> FALSE]
    ELSE IF ~d.serial_open
    THEN [outcome |-> "TFlexError", why |-> "unavailable", body |-> <<>>,
          mock_coins |-> d.mock_coins, written |-> <<>>, locked |-> FALSE]
    ELSE IF line.damage = "serial"
    THEN [outcome |-> "TFlexError", why |-> "serial", body |-> <<>>,
          mock_coins |-> d.mock_coins, written |-> <<>>, locked |-> TRUE]
    ELSE LET r == ReadLoop(<<>>, LineSupply(line)) IN
         [outcome |-> r.outcome, why |-> r.why, body |-> r.body,
          mock_coins |-> d.mock_coins,
          written |-> IF r.outcome = "TFlexTimeoutError"
                      THEN <<BuildRequest(command, data), BuildRequest(command, data)>>
                      ELSE <<BuildRequest(command, data)>>,
          locked |-> TRUE]

\* TFlex._send_command as one call
send_command(d, command, data, line) ==
    IF d.mock_mode
    THEN LET m == mock_command(d.mock_coins, command, data) IN
         [outcome |-> "return", why |-> "mock", body |-> m.body,
          mock_coins |-> m.coins, written |-> <<>>, locked |-> FALSE]
    ELSE IF ~d.serial_open
    THEN [outcome |-> "TFlexError", why |-> "unavailable", body |-> <<>>,
          mock_coins |-> d.mock_coins, written |-> <<>>, locked |-> FALSE]
    ELSE IF line.damage = "serial"
    THEN [outcome |-> "TFlexError", why |-> "serial", body |-> <<>>,
          mock_coins |-> d.mock_coins, written |-> <<>>, locked |-> TRUE]
    ELSE LET r == ReadLoop(<<>>, LineSupply(line)) IN
         [outcome |-> r.outcome, why |-> r.why, body |-> r.body,
          mock_coins |-> d.mock_coins,
          written |-> <<BuildRequest(command, data)>>, locked |-> TRUE]

\* an exception of _send_command passing through the caller's `except TFlexError: raise`
Raised(r) == [outcome |-> r.outcome, msg |-> ErrorMessage(r.why), code |-> NoCode]

\* TFlex.status
\* a status() that starts a fresh snapshot when the poll fails
status_freshOnFailure(d, line) ==
    LET r == send_command(d, CMD_STATUS, <<>>, line)
        response == r.body
        cache ==
          IF r.outcome # "return" THEN [DefaultStatus EXCEPT !.fault = TRUE]
          ELSE IF Len(response) >= 4
               THEN IF response[1] = RESP_OK
                    THEN [low_coin        |-> Bit(response[2], 0) = 1,
                          lid_open        |-> Bit(response[2], 1) = 1,
                          fault           |-> Bit(response[2], 2) = 1,
                          coins_available |-> response[3] * 256 + response[4]]
                    ELSE [DefaultStatus EXCEPT !.fault = TRUE]
               ELSE d.last_status
    IN  [drv     |-> [d EXCEPT !.last_status = cache, !.mock_coins = r.mock_coins],
         result  |-> [outcome |-> "return", msg |-> "", code |-> NoCode],
         value   |-> cache,
         sc      |-> [outcome |-> r.outcome, why |-> r.why],
         written |-> r.written, locked |-> r.locked]

status(d, line) ==
    LET r == send_command(d, CMD_STATUS, <<>>, line)
        response == r.body
        cache ==
          IF r.outcome # "return" THEN [d.last_status EXCEPT !.fault = TRUE]
          ELSE IF Len(response) >= 4
               THEN IF response[1] = RESP_OK
                    THEN [low_coin        |-> Bit(response[2], 0) = 1,
                          lid_open        |-> Bit(response[2], 1) = 1,
                          fault           |-> Bit(response[2], 2) = 1,
                          coins_available |-> response[3] * 256 + response[4]]
                    ELSE [d.last_status EXCEPT !.fault = TRUE]
               ELSE d.last_status
    IN  [drv     |-> [d EXCEPT !.last_status = cache, !.mock_coins = r.mock_coins],
         result  |-> [outcome |-> "return", msg |-> "", code |-> NoCode],
         value   |-> cache,
         sc      |-> [outcome |-> r.outcome, why |-> r.why],
         written |-> r.written, locked |-> r.locked]

\* a range test that lets 256 through
CountValid_upTo256(coins) == coins.is_int /\ coins.n >= 1 /\ coins.n <= 256

\* dispense: isinstance(coins, int) and 1 <= coins <= 255
CountValid(coins) == coins.is_int /\ coins.n >= 1 /\ coins.n <= 255

\* TFlex.dispense
dispense(d, coins, line) ==
    IF ~CountValid(coins)
    THEN [drv     |-> d,
          result  |-> [outcome |-> "ValueError",
                       msg |-> "Coin count must be between 1 and 255", code |-> NoCode],
          value   |-> d.last_status,
          sc      |-> [outcome |-> "none", why |-> "none"],
          written |-> <<>>, locked |-> FALSE]
    ELSE
      LET data == <<(coins.n \div 256) % 256, coins.n % 256>>
          r == send_command(d, CMD_DISPENSE, data, line)
          response == r.body
          result ==
            IF r.outcome # "return" THEN Raised(r)
            ELSE IF Len(response) > 0
            THEN IF response[1] = RESP_OK
                 THEN [outcome |-> "return", msg |-> "", code |-> NoCode]
                 ELSE IF response[1] = RESP_LOW_COIN
                 THEN [outcome |-> "TFlexHardwareError",
                       msg |-> "Insufficient coins in dispenser", code |-> NoCode]
                 ELSE IF response[1] = RESP_BUSY
                 THEN [outcome |-> "TFlexHardwareError",
                       msg |-> "Dispenser is busy", code |-> NoCode]
                 ELSE IF response[1] = RESP_LID_OPEN
                 THEN [outcome |-> "TFlexHardwareError",
                       msg |-> "Dispenser lid is open", code |-> NoCode]
                 ELSE [outcome |-> "TFlexHardwareError",
                       msg |-> "Dispense failed with code", code |-> response[1]]
            ELSE [outcome |-> "TFlexError",
                  msg |-> "No response to dispense command", code |-> NoCode]
      IN  [drv     |-> [d EXCEPT !.mock_coins = r.mock_coins],
           result  |-> result,
           value   |-> d.last_status,
           sc      |-> [outcome |-> r.outcome, why |-> r.why],
           written |-> r.written, locked |-> r.locked]

\* reset: len(response) > 0 and response[0] == self.RESP_OK
ResetAccepts(response) == Len(response) > 0 /\ response[1] = RESP_OK

\* TFlex.reset
reset(d, line) ==
    LET r == send_command(d, CMD_RESET, <<>>, line)
        result ==
          IF r.outcome # "return" THEN Raised(r)
          ELSE IF ResetAccepts(r.body)
          THEN [outcome |-> "return", msg |-> "", code |-> NoCode]
          ELSE [outcome |-> "TFlexHardwareError", msg |-> "Reset command failed",
                code |-> NoCode]
    IN  [drv     |-> [d EXCEPT !.mock_coins = r.mock_coins],
         result  |-> result,
         value   |-> d.last_status,
         sc      |-> [outcome |-> r.outcome, why |-> r.why],
         written |-> r.written, locked |-> r.locked]

-----------------------------------------------------------------------------
(* SpecApi: one caller makes up to MaxApiCalls calls of status(), dispense()
   and reset(), and may close() the port.  The driver is either in mock mode
   (no serial port) or holds an open port, on which each call's request is
   answered by a device body, answered by the simulator's STATUS handler,
   damaged on the way, or not answered. *)

\* calls made in one run of the model
MaxApiCalls == 2

\* outcome bytes a device may answer: the six defined codes and an unknown one
OutcomeSample == {RESP_OK, RESP_ERROR, RESP_BUSY, RESP_LOW_COIN, RESP_LID_OPEN, RESP_FAULT, 6}

\* bodies answered to DISPENSE and RESET: the outcome alone, or nothing
CommandBodies == { <<c>> : c \in OutcomeSample } \cup { <<>> }

\* bodies answered to STATUS: the outcome alone, or with flags and coin count
StatusBodies ==
    CommandBodies
    \cup { <<c, 5, 3, 232>> : c \in OutcomeSample }
    \cup { <<RESP_OK, 2, 0, 40>>, <<RESP_BUSY, 7>> }

\* the transport during a call, given the bodies the device may answer
Lines(bodies) ==
    [body : bodies, damage : {"none"}]
    \cup [body : {<<RESP_OK>>}, damage : {"silent", "cut", "crc", "serial"}]

\* coin counts of the simulated device drawn for STATUS
CoinSample == {0, 40, 50, 51, 255, 256, 960, 1000, 65535}

\* device states answering STATUS
DeviceStates ==
    { [DefaultState EXCEPT !.coins_available = n, !.lid_open = l, !.fault = f, !.busy = b] :
        n \in CoinSample, l \in BOOLEAN, f \in BOOLEAN, b \in BOOLEAN }

\* arguments passed to dispense(): integers around the limits, and a non-integer
CountSample ==
    [is_int : {TRUE}, n : {-1, 0, 1, 5, 255, 256, 1000}] \cup [is_int : {FALSE}, n : {5}]

\* TFlex.__init__: mock mode when no port could be opened, else an open port
ApiInit ==
    /\ drv \in { [mock_mode |-> m, serial_open |-> ~m, mock_coins |-> 1000,
                   last_status |-> DefaultStatus] : m \in BOOLEAN }
    /\ alast = NoApiCall
    /\ acalls = 0

\* the ghost record of a call
CallRecord(op, arg, line, o) ==
    [op |-> op, arg |-> arg, line |-> line, pre |-> drv, result |-> o.result,
     value |-> o.value, sc |-> o.sc, written |-> o.written, locked |-> o.locked]

ApiStep(op, arg, line, o) ==
    /\ drv' = o.drv
    /\ alast' = CallRecord(op, arg, line, o)
    /\ acalls' = acalls + 1
    /\ UNCHANGED <<codecVars, driverVars, simVars>>

\* status() against a device that answers `line`
ApiStatus(line) ==
    /\ acalls < MaxApiCalls
    /\ \E o \in {status(drv, line)} : ApiStep("status", DefaultState, line, o)

\* status() against the simulator in state st: _handle_status answers and
\* _send_response frames the answer
ApiStatusOfSimulator(st) ==
    /\ acalls < MaxApiCalls
    /\ ~drv.mock_mode /\ drv.serial_open
    /\ LET line == [body |-> handle_status(st).response, damage |-> "none"]
       IN  \E o \in {status(drv, line)} : ApiStep("status_sim", st, line, o)

\* dispense(coins)
ApiDispense(coins, line) ==
    /\ acalls < MaxApiCalls
    /\ \E o \in {dispense(drv, coins, line)} : ApiStep("dispense", coins, line, o)

\* reset()
ApiReset(line) ==
    /\ acalls < MaxApiCalls
    /\ \E o \in {reset(drv, line)} : ApiStep("reset", DefaultState, line, o)

\* TFlex.close
ApiClose ==
    /\ drv.serial_open
    /\ drv' = [drv EXCEPT !.serial_open = FALSE]
    /\ alast' = NoApiCall
    /\ UNCHANGED acalls
    /\ UNCHANGED <<codecVars, driverVars, simVars>>

ApiNext ==
    \/ \E line \in Lines(StatusBodies) : ApiStatus(line)
    \/ \E st \in DeviceStates : ApiStatusOfSimulator(st)
    \/ \E coins \in CountSample, line \in Lines(CommandBodies) : ApiDispense(coins, line)
    \/ \E line \in Lines(CommandBodies) : ApiReset(line)
    \/ ApiClose

InitApi == ApiInit /\ CodecIdle /\ DriverInit /\ SimIdle

SpecApi == InitApi /\ [][ApiNext]_vars

-----------------------------------------------------------------------------
(* SpecDegraded: a driver constructed without a serial port (pyserial missing,
   or the port could not be opened) runs in mock mode.  One caller makes up to
   MaxDegradedCalls calls, one after the other. *)

\* calls made in one run of the model
MaxDegradedCalls == 5

\* counts passed to dispense(): the limits of the valid range and 5
DegradedCounts == [is_int : {TRUE}, n : {1, 5, 255}]

\* no transport takes part in a call
NoLine == [body |-> <<>>, damage |-> "none"]

\* TFlex.__init__ when no port could be opened
DegradedInit ==
    /\ drv = [mock_mode |-> TRUE, serial_open |-> FALSE, mock_coins |-> 1000,
              last_status |-> DefaultStatus]
    /\ alast = NoApiCall
    /\ acalls = 0

DegradedStatus ==
    /\ acalls < MaxDegradedCalls
    /\ \E o \in {status(drv, NoLine)} : ApiStep("status", DefaultState, NoLine, o)

DegradedDispense(coins) ==
    /\ acalls < MaxDegradedCalls
    /\ \E o \in {dispense(drv, coins, NoLine)} : ApiStep("dispense", coins, NoLine, o)

DegradedReset ==
    /\ acalls < MaxDegradedCalls
    /\ \E o \in {reset(drv, NoLine)} : ApiStep("reset", DefaultState, NoLine, o)

DegradedNext ==
    \/ DegradedStatus
    \/ \E coins \in DegradedCounts : DegradedDispense(coins)
    \/ DegradedReset

InitDegraded == DegradedInit /\ CodecIdle /\ DriverInit /\ SimIdle

SpecDegraded == InitDegraded /\ [][DegradedNext]_vars

-----------------------------------------------------------------------------
(* SpecDegradedThreads: several threads call dispense() on one driver in mock
   mode.  _send_command returns _mock_command's result before it takes the
   lock, so the test `coins_requested > self._mock_coins` and the statement
   `self._mock_coins -= coins_requested` (a read, a subtraction, a write) of
   one thread interleave with those of another wherever the interpreter
   switches threads.  dpc is the thread's position, dreq its call, dresp the
   value it has read from _mock_coins and not yet written back; alast keeps
   the counter before the calls and the coins of the calls that returned. *)

\* calls made in one run of the model
MaxThreadCalls == 4

\* counts passed to dispense()
ThreadCounts == {5, 255}

DegradedThreadsInit ==
    /\ drv = [mock_mode |-> TRUE, serial_open |-> FALSE, mock_coins |-> 1000,
              last_status |-> DefaultStatus]
    /\ alast = [op |-> "threads", pre |-> 1000, paid |-> 0]
    /\ acalls = 0

\* dispense(coins) up to the sleep at the head of _mock_command
MockCall(t, coins) ==
    /\ dpc[t] = "idle"
    /\ nextId < MaxThreadCalls
    /\ nextId' = nextId + 1
    /\ dreq' = [dreq EXCEPT ![t] = [id |-> nextId + 1, command |-> CMD_DISPENSE,
                                     data |-> <<(coins \div 256) % 256, coins % 256>>]]
    /\ dpc' = [dpc EXCEPT ![t] = "test"]
    /\ dresult' = [dresult EXCEPT ![t] = NoResult]
    /\ UNCHANGED <<lock, dresp, tx, rx>>
    /\ UNCHANGED <<codecVars, simVars, apiVars>>

\* if coins_requested > self._mock_coins: return LOW_COIN, which dispense()
\* raises as TFlexHardwareError
MockTest(t) ==
    /\ dpc[t] = "test"
    /\ LET coins_requested == dreq[t].data[1] * 256 + dreq[t].data[2] IN
       IF coins_requested > drv.mock_coins
       THEN /\ dresult' = [dresult EXCEPT ![t] =
                             [NoResult EXCEPT !.outcome = "TFlexHardwareError",
                                              !.why = "low_coin", !.id = dreq[t].id]]
            /\ dpc' = [dpc EXCEPT ![t] = "idle"]
       ELSE /\ dpc' = [dpc EXCEPT ![t] = "load"]
            /\ UNCHANGED dresult
    /\ UNCHANGED <<lock, dreq, dresp, nextId, tx, rx>>
    /\ UNCHANGED <<codecVars, simVars, apiVars>>

\* self._mock_coins -= coins_requested: the attribute is read
MockLoad(t) ==
    /\ dpc[t] = "load"
    /\ dresp' = [dresp EXCEPT ![t] = <<drv.mock_coins>>]
    /\ dpc' = [dpc EXCEPT ![t] = "store"]
    /\ UNCHANGED <<lock, dreq, dresult, nextId, tx, rx>>
    /\ UNCHANGED <<codecVars, simVars, apiVars>>

\* ... and the difference is written back; OK is returned and dispense() returns
MockStore(t) ==
    /\ dpc[t] = "store"
    /\ LET coins_requested == dreq[t].data[1] * 256 + dreq[t].data[2] IN
       /\ drv' = [drv EXCEPT !.mock_coins = dresp[t][1] - coins_requested]
       /\ alast' = [alast EXCEPT !.paid = alast.paid + coins_requested]
    /\ dresult' = [dresult EXCEPT ![t] =
                     [NoResult EXCEPT !.outcome = "return", !.why = "ok",
                                      !.body = <<RESP_OK>>, !.id = dreq[t].id]]
    /\ dresp' = [dresp EXCEPT ![t] = <<>>]
    /\ dpc' = [dpc EXCEPT ![t] = "idle"]
    /\ UNCHANGED <<lock, dreq, nextId, tx, rx, acalls>>
    /\ UNCHANGED <<codecVars, simVars>>

DegradedThreadsNext ==
    \/ \E t \in Threads, coins \in ThreadCounts : MockCall(t, coins)
    \/ \E t \in Threads : MockTest(t)
    \/ \E t \in Threads : MockLoad(t)
    \/ \E t \in Threads : MockStore(t)

InitDegradedThreads == DegradedThreadsInit /\ CodecIdle /\ DriverInit /\ SimIdle

SpecDegradedThreads == InitDegradedThreads /\ [][DegradedThreadsNext]_vars

-----------------------------------------------------------------------------
(* SpecThreshold: the two low-coin tests side by side.  A driver in mock mode
   whose counter stands at c is polled with status(), and the simulator with
   coins_available = c and the default threshold answers STATUS. *)

\* the counts compared: every value the mock counter takes between empty and full
CoinRange == 0..1000

ThresholdInit ==
    /\ drv \in { [mock_mode |-> TRUE, serial_open |-> FALSE, mock_coins |-> c,
                   last_status |-> DefaultStatus] : c \in CoinRange }
    /\ alast = NoApiCall
    /\ acalls = 0

\* status() in mock mode
ThresholdDriver ==
    /\ alast.op = "none"
    /\ \E o \in {status(drv, NoLine)} :
          ApiStep("status", [DefaultState EXCEPT !.coins_available = drv.mock_coins],
                  NoLine, o)

\* _handle_status on the simulator holding the same number of coins
ThresholdSimulator ==
    /\ cres.outcome = "none"
    /\ cres' = [outcome |-> "handled",
                response |-> handle_status(
                    [DefaultState EXCEPT !.coins_available = drv.mock_coins]).response]
    /\ UNCHANGED <<cpc, cin, cwire>>
    /\ UNCHANGED <<driverVars, simVars, apiVars>>

ThresholdNext ==
    \/ ThresholdDriver
    \/ ThresholdSimulator

InitThreshold == ThresholdInit /\ CodecIdle /\ DriverInit /\ SimIdle

SpecThreshold == InitThreshold /\ [][ThresholdNext]_vars

-----------------------------------------------------------------------------
(* Claims about the driver operations.  They read `alast`, the record of the
   latest call: its argument, what the transport did (`line`), the TFlex
   object before the call (`pre`), and how the call ended. *)

\* the latest call was made on an open port
OnPort == alast.op # "none" /\ ~alast.pre.mock_mode /\ alast.pre.serial_open

\* ... and the device's answer arrived undamaged
DeviceAnswered == OnPort /\ alast.line.damage = "none"

\* C15: status() on a non-OK outcome. Whenever the device answers STATUS with
\* an outcome other than OK, with or without extra data bytes, status() does
\* not raise, sets the cached snapshot's fault flag and returns the snapshot.
C15_StatusNonOk ==
    (alast.op = "status" /\ DeviceAnswered /\ Len(alast.line.body) > 0
        /\ alast.line.body[1] # RESP_OK) =>
        /\ alast.result.outcome = "return"
        /\ drv.last_status.fault
        /\ alast.value = drv.last_status

\* C16: timeout. If the transport stops delivering bytes while status() waits
\* for a response, status() fails with a timeout error and does not return a
\* normal result.
C16_StatusTimeout ==
    (alast.op = "status" /\ OnPort /\ alast.line.damage \in {"silent", "cut"}) =>
        alast.result.outcome = "TFlexTimeoutError"

\* C17: dispense(count) with count outside 1..255, or not an integer, fails
\* with ValueError before any I/O: nothing is written, the lock is not taken
\* and the TFlex object, the mock coin counter included, is unchanged.
C17_InvalidCount ==
    (alast.op = "dispense"
        /\ ~(alast.arg.is_int /\ alast.arg.n >= 1 /\ alast.arg.n <= 255)) =>
        /\ alast.result.outcome = "ValueError"
        /\ alast.written = <<>>
        /\ ~alast.locked
        /\ drv = alast.pre

\* dispense(256) was called in mock mode and failed, the counter still at 1000
C17_Witness ==
    /\ alast.op = "dispense" /\ alast.pre.mock_mode
    /\ alast.arg.is_int /\ alast.arg.n = 256
    /\ alast.result.outcome = "ValueError" /\ drv.mock_coins = 1000

\* C18: dispense() outcome mapping. OK returns; LOW_COIN, BUSY and LID_OPEN
\* raise their own errors; every other outcome code, ERROR and FAULT included,
\* raises a hardware error that carries the raw outcome code.
C18_DispenseOutcomeMapping ==
    (alast.op = "dispense" /\ DeviceAnswered /\ Len(alast.line.body) > 0
        /\ alast.arg.is_int /\ alast.arg.n >= 1 /\ alast.arg.n <= 255) =>
        LET c == alast.line.body[1] IN
        IF c = RESP_OK THEN alast.result.outcome = "return"
        ELSE /\ alast.result.outcome = "TFlexHardwareError"
             /\ c = RESP_LOW_COIN => alast.result.msg = "Insufficient coins in dispenser"
             /\ c = RESP_BUSY => alast.result.msg = "Dispenser is busy"
             /\ c = RESP_LID_OPEN => alast.result.msg = "Dispenser lid is open"
             /\ c \notin {RESP_LOW_COIN, RESP_BUSY, RESP_LID_OPEN} => alast.result.code = c

\* C19: reset() returns normally exactly when the device's response outcome
\* is OK; any other outcome, or an empty response body, raises a hardware
\* error; transport and timeout errors propagate.
C19_ResetOutcome ==
    (alast.op = "reset" /\ OnPort) =>
        IF alast.line.damage = "none"
        THEN IF Len(alast.line.body) > 0 /\ alast.line.body[1] = RESP_OK
             THEN alast.result.outcome = "return"
             ELSE alast.result.outcome = "TFlexHardwareError"
        ELSE IF alast.line.damage \in {"silent", "cut"}
        THEN alast.result.outcome = "TFlexTimeoutError"
        ELSE alast.result.outcome = "TFlexError"

\* C20: end-to-end status decoding. When the simulator answers STATUS from a
\* state with 0 <= coinsAvailable <= 65535 and the driver decodes the answer,
\* the snapshot's coinsAvailable, lowCoin, lidOpen and fault equal the
\* device's, whatever the busy bit.
C20_StatusEndToEnd ==
    alast.op = "status_sim" =>
        /\ alast.result.outcome = "return"
        /\ alast.value.coins_available = alast.arg.coins_available
        /\ alast.value.low_coin = (alast.arg.coins_available <= alast.arg.low_coin_threshold)
        /\ alast.value.lid_open = alast.arg.lid_open
        /\ alast.value.fault = alast.arg.fault
        /\ drv.last_status = alast.value

\* a busy device in fault holding 65535 coins was polled and decoded
C20_Witness ==
    /\ alast.op = "status_sim"
    /\ alast.arg.busy /\ alast.arg.fault /\ ~alast.arg.lid_open
    /\ alast.arg.coins_available = 65535
    /\ alast.value.coins_available = 65535 /\ alast.value.fault /\ ~alast.value.low_coin

\* C27: low-coin reporting. The lowCoin flag (bit 0) of the simulator's STATUS
\* answer is set exactly when coinsAvailable <= lowCoinThreshold, and the
\* answer carries the coin count: with threshold 50, a device holding 40 coins
\* reports 40 and lowCoin, one holding 960 reports 960 and no lowCoin.
C27_LowCoinReporting ==
    alast.op = "status_sim" =>
        /\ (Bit(alast.line.body[2], 0) = 1) =
              (alast.arg.coins_available <= alast.arg.low_coin_threshold)
        /\ alast.line.body[3] * 256 + alast.line.body[4] = alast.arg.coins_available
        /\ alast.arg.coins_available = 40 => Bit(alast.line.body[2], 0) = 1
        /\ alast.arg.coins_available = 960 => Bit(alast.line.body[2], 0) = 0

\* a device holding exactly its threshold of 50 coins reported lowCoin
C27_Witness ==
    /\ alast.op = "status_sim"
    /\ alast.arg.coins_available = 50 /\ alast.arg.low_coin_threshold = 50
    /\ ~alast.arg.lid_open /\ ~alast.arg.fault /\ ~alast.arg.busy
    /\ alast.line.body = <<RESP_OK, 1, 0, 50>>

\* the latest call was made by a driver that holds a serial port
RealTransport == alast.op # "none" /\ ~alast.pre.mock_mode

\* _send_command wrote the request: it returned, or raised after the write
ReachedTransport ==
    \/ alast.sc.outcome \in {"return", "TFlexTimeoutError", "TFlexHardwareError"}
    \/ alast.sc.outcome = "TFlexError" /\ alast.sc.why \in {"length", "framing", "crc"}

\* the command byte of the latest call
CommandOf(op) == IF op = "dispense" THEN CMD_DISPENSE
                 ELSE IF op = "reset" THEN CMD_RESET ELSE CMD_STATUS

\* C28 as stated: each call of status(), dispense() or reset() in
\* real-transport mode writes exactly one request frame.
C28_NoAutoRetry_Original ==
    RealTransport => Len(alast.written) = 1

\* C28 amended: no call writes more than one request frame. A call that
\* reaches the transport (valid count, open port, write accepted) writes
\* exactly one frame, its own request, also when it ends in a timeout, a
\* framing/CRC error or a hardware error; a call that fails its input
\* validation, finds the port closed, or whose write fails writes none.
C28_NoAutoRetry ==
    RealTransport =>
        /\ Len(alast.written) <= 1
        /\ ReachedTransport =>
              /\ Len(alast.written) = 1
              /\ alast.written[1][1] = STX /\ alast.written[1][3] = CommandOf(alast.op)
        /\ ~ReachedTransport => alast.written = <<>>
        /\ alast.result.outcome = "ValueError" => alast.written = <<>>

\* reset() on a silent line ended in the timeout after one RESET frame
C28_Witness ==
    /\ RealTransport /\ alast.op = "reset" /\ alast.line.damage = "silent"
    /\ alast.result.outcome = "TFlexTimeoutError"
    /\ alast.written = <<BuildRequest(CMD_RESET, <<>>)>>

\* C29: degraded mode. A driver constructed without a transport stays in mock
\* mode and writes nothing. status() returns normally with the local counter
\* as coin count and leaves the counter alone; dispense(n), n in 1..255,
\* succeeds and takes exactly n off the counter when n <= counter, and fails
\* with the insufficient-coins error, counter unchanged, when n > counter;
\* reset() puts the counter back to 1000.  The counter stays within 0..1000.
C29_DegradedMode ==
    /\ drv.mock_mode
    /\ drv.mock_coins \in 0..1000
    /\ alast.op # "none" =>
          /\ alast.pre.mock_mode
          /\ alast.written = <<>>
    /\ alast.op = "status" =>
          /\ alast.result.outcome = "return"
          /\ alast.value.coins_available = alast.pre.mock_coins
          /\ ~alast.value.fault
          /\ drv.mock_coins = alast.pre.mock_coins
    /\ alast.op = "dispense" =>
          IF alast.arg.n <= alast.pre.mock_coins
          THEN /\ alast.result.outcome = "return"
               /\ drv.mock_coins = alast.pre.mock_coins - alast.arg.n
          ELSE /\ alast.result.outcome = "TFlexHardwareError"
               /\ alast.result.msg = "Insufficient coins in dispenser"
               /\ drv.mock_coins = alast.pre.mock_coins
    /\ alast.op = "reset" =>
          /\ alast.result.outcome = "return"
          /\ drv.mock_coins = 1000

\* with 235 coins left on the counter, dispense(255) failed and left 235
C29_Witness ==
    /\ alast.op = "dispense" /\ alast.arg.n = 255
    /\ alast.pre.mock_coins = 235
    /\ alast.result.outcome = "TFlexHardwareError"
    /\ drv.mock_coins = 235

-----------------------------------------------------------------------------
(* Codec claims *)

\* C1: request round-trip. The frame the driver builds for (command, data) is
\* cut from the simulator's buffer as one packet, passes the framing and checksum
\* checks, and yields the same command byte and data bytes; nothing is left over.
C1_RequestRoundTrip ==
    (cpc = "received" /\ cin.dir = "request") =>
        /\ cres.rest = <<>>
        /\ Len(cres.decoded) = 1
        /\ cres.decoded[1].ok
        /\ cres.decoded[1].command = cin.command
        /\ cres.decoded[1].data = cin.payload

\* C2 as stated: every response body of 1..255 bytes framed by the simulator is
\* accepted by the driver, which returns the same body bytes.
C2_ResponseRoundTrip_Original ==
    (cpc = "received" /\ cin.dir = "response" /\ cin.transport) =>
        (cres.outcome = "return" /\ cres.body = cin.payload)

\* C2 amended: a framed response body always passes the driver's length,
\* framing and checksum checks; it is returned unchanged when its first byte is
\* neither ERROR nor FAULT, and raises TFlexHardwareError when it is.
C2_ResponseRoundTrip ==
    (cpc = "received" /\ cin.dir = "response" /\ cin.transport) =>
        IF cin.payload[1] \in {RESP_ERROR, RESP_FAULT}
        THEN cres.outcome = "TFlexHardwareError"
        ELSE cres.outcome = "return" /\ cres.body = cin.payload

\* a three-byte body whose outcome is BUSY has been framed, read and returned
C2_Witness ==
    /\ cpc = "received" /\ cin.dir = "response" /\ cin.transport
    /\ Len(cin.payload) = 3 /\ cin.payload[1] = RESP_BUSY
    /\ cres.outcome = "return" /\ cres.body = cin.payload

-----------------------------------------------------------------------------
(* Claims about the checksum *)

\* the bits of a byte, most significant first
ByteBits(b) == [i \in 1..8 |-> Bit(b, 8 - i)]

\* the message as a bit string, most significant bit of the first byte first,
\* followed by eight zero bits (the message polynomial times x^8)
RECURSIVE MessageBits(_)
MessageBits(data) ==
    IF data = <<>> THEN [i \in 1..8 |-> 0]
    ELSE ByteBits(Head(data)) \o MessageBits(Tail(data))

\* one step of the long division: shift the next bit in, subtract 0x107 when
\* the x^8 term appears
PolyStep(reg, bit) ==
    LET r == reg * 2 + bit IN
    IF r >= 256 THEN Xor8(r - 256, 7) ELSE r

\* long division by x^8 + x^2 + x + 1 (0x107): the remainder after bits[1..n]
RECURSIVE PolyRemainder(_, _)
PolyRemainder(bits, n) ==
    IF n = 0 THEN 0
    ELSE CHOOSE r \in { PolyStep(before, bits[n]) :
                            before \in {PolyRemainder(bits, n - 1)} } : TRUE

\* CRC-8 by its definition: initial value 0, polynomial 0x07, MSB first,
\* no final XOR
Crc8Reference(data) ==
    LET bits == MessageBits(data) IN PolyRemainder(bits, Len(bits))

\* the byte sequences a checksum is asked about in this state: the body drawn
\* and every run of consecutive bytes of the frame on the line
ChecksumInputs ==
    {cin.payload} \cup
    {SubSeq(cwire, i, j) : i \in 1..(Len(cwire) + 1), j \in 0..Len(cwire)}

\* C30: the checksum functions of the driver and of the simulator are the same
\* function: for every byte sequence both return the CRC-8 with initial value
\* 0, polynomial 0x07, MSB first, no final XOR, a value within 0..255.
C30_SameChecksum ==
    \A data \in ChecksumInputs :
        /\ TFlex_calculate_crc(data) = Mock_calculate_crc(data)
        /\ TFlex_calculate_crc(data) = Crc8Reference(data)
        /\ TFlex_calculate_crc(data) \in 0..255

\* the simulator framed the body FF A6 with checksum 0x7A over 02 FF A6, and
\* the driver's checksum accepted the frame
C30_Witness ==
    /\ cpc = "received" /\ cin.dir = "response" /\ cin.transport
    /\ cin.payload = <<255, 166>>
    /\ cwire = <<STX, 2, 255, 166, 122, ETX>>
    /\ Crc8Reference(<<2, 255, 166>>) = 122
    /\ cres.outcome = "return"

-----------------------------------------------------------------------------
(* Claims about the operator console.  They read `events`, which after a
   console command holds the command line and the state it found, for the
   latest two commands. *)

ConsoleEvents == { e \in {events[i] : i \in 1..Len(events)} : e.kind = "console" }

\* the state the command line `parts` is to leave when it finds `pre`
ConsoleEffect(pre, parts) ==
    IF parts = <<"refill">> THEN [pre EXCEPT !.coins_available = 1000]
    ELSE IF parts[1] = "refill" THEN [pre EXCEPT !.coins_available = parts[2]]
    ELSE IF parts = <<"jam">> THEN [pre EXCEPT !.jam_simulation = TRUE]
    ELSE IF parts = <<"fault">> THEN [pre EXCEPT !.fault = ~pre.fault]
    ELSE IF parts = <<"lid", "open">> THEN [pre EXCEPT !.lid_open = TRUE]
    ELSE IF parts = <<"lid", "close">> THEN [pre EXCEPT !.lid_open = FALSE]
    ELSE IF parts = <<"lid">> THEN [pre EXCEPT !.lid_open = ~pre.lid_open]
    ELSE IF parts = <<"reset">>
    THEN [pre EXCEPT !.fault = FALSE, !.busy = FALSE, !.lid_open = FALSE,
                     !.jam_simulation = FALSE]
    ELSE pre

\* C31: each console command changes only its designated field of the shared
\* state: refill n sets coins_available to n (1000 without argument), jam sets
\* jam_simulation, fault toggles fault (twice in a row restores it), lid open /
\* lid close set lid_open and lid alone toggles it, reset clears fault, busy,
\* lid_open and jam_simulation, status changes nothing; and no frame handler or
\* background completion runs between the command's reads and writes: the state
\* it found is the state the command before it left, and nothing of the loop
\* is scheduled or pending while the console runs.
C31_ConsoleCommands ==
    /\ events # <<>> /\ events[1].kind = "console" =>
          /\ state = ConsoleEffect(events[1].pre, events[1].parts)
          /\ Len(events) = 2 =>
                /\ events[2].kind = "console"
                /\ events[1].pre = ConsoleEffect(events[2].pre, events[2].parts)
                /\ (events[1].parts = <<"fault">> /\ events[2].parts = <<"fault">>)
                      => state = events[2].pre
    /\ cliActive => ready = <<>> /\ tasks = {}

\* `fault` was typed twice on a device with the lid open: the fault flag went
\* on and off again and the lid stayed open
C31_Witness ==
    /\ Len(events) = 2
    /\ events[1].kind = "console" /\ events[1].parts = <<"fault">>
    /\ events[2].kind = "console" /\ events[2].parts = <<"fault">>
    /\ events[1].pre.fault /\ ~state.fault
    /\ state.lid_open /\ state = events[2].pre

-----------------------------------------------------------------------------
(* Claims about the simulator's background completions and its inventory *)

\* every packet handled in the latest step
AllPacketEvents == { e \in {events[i] : i \in 1..Len(events)} : e.kind = "packet" }

\* first steps of background tasks run in the latest step
StartEvents == { e \in {events[i] : i \in 1..Len(events)} : e.kind = "start" }

\* the coin count a STATUS response body carries
ReportedCoins(response) == response[3] * 256 + response[4]

\* C32: acknowledgment precedes completion. When a DISPENSE is answered OK the
\* device is busy as the handler returns, so that the next frame handled sees
\* busy = true; coins_available and total_dispensed keep their values then and
\* in every other step but the completion, which deducts the coins, adds them
\* to the total and clears busy; a STATUS handled while a dispense is pending
\* reports the undeducted count.
C32_AckPrecedesCompletion ==
    /\ \A e \in DispenseEvents :
          e.response = <<RESP_OK>> => e.post.busy
    /\ \A e \in AllPacketEvents :
          /\ e.post.coins_available = e.pre.coins_available
          /\ e.post.total_dispensed = e.pre.total_dispensed
    /\ \A e \in StartEvents :
          /\ state.coins_available = e.pre.coins_available
          /\ state.total_dispensed = e.pre.total_dispensed
    /\ \A e \in CompletionEvents :
          /\ state.coins_available = e.pre.coins_available - e.task.coins
          /\ state.total_dispensed = e.pre.total_dispensed + e.task.coins
          /\ ~state.busy
    /\ \A e \in StatusEvents :
          (e.pending # {} /\ e.pre.coins_available \in 0..65535) =>
              ReportedCoins(e.response) = e.pre.coins_available

\* C35: in every reachable simulator state coins_available >= 0, for every
\* sequence and interleaving of STATUS, DISPENSE, RESET and CALIBRATE frames
\* (pipelined in one read or from several connections), background
\* completions and console commands.
C35_CoinsNonNegative == state.coins_available >= 0

\* completions scheduled by create_task that have not fired
PendingTasks(kind) == { t \in tasks : t.kind = kind }

\* C36: busy is true in every state in which a dispense or calibrate
\* completion has been scheduled and has not yet fired, and at most one
\* dispense completion is pending at a time; also when RESET (protocol or
\* console) or CALIBRATE is handled while a dispense is pending, and when a
\* dispense completes while a calibration is pending.
C36_BusyWhilePending ==
    /\ tasks # {} => state.busy
    /\ Cardinality(PendingTasks("dispense")) <= 1

\* coins in the hopper plus coins paid out
CoinSum(st) == st.coins_available + st.total_dispensed

\* the step is a console `refill`
RefillStep == \E parts \in ConsoleLines : parts[1] = "refill" /\ ConsoleCommand(parts)

\* C37: absent console refill, coins_available + total_dispensed equals the
\* initial coin count in every reachable state: it does so initially and no
\* step other than a console refill changes the sum; total_dispensed never
\* decreases, and RESET (protocol or console) leaves it as it is.
C37_CoinConservation ==
    /\ CoinSum(state) \in InitialCoins
    /\ [][ /\ ~RefillStep => CoinSum(state') = CoinSum(state)
           /\ state'.total_dispensed >= state.total_dispensed ]_vars
    /\ [](\A e \in ResetEvents : e.post.total_dispensed = e.pre.total_dispensed)

\* a RESET was handled after a dispense of 5 had completed: 995 coins in the
\* hopper, 5 paid out, before the RESET and after it
C37_Witness ==
    \E e \in ResetEvents :
        /\ e.pre.total_dispensed = 5 /\ e.pre.coins_available = 995
        /\ state.total_dispensed = 5 /\ state.coins_available = 995

-----------------------------------------------------------------------------
(* Claims about the driver's round trip.  They read `dresult`, which keeps for
   the latest call of each thread how it ended and the bytes its wait loop had
   read. *)

\* the bytes are a complete frame by their own LEN: START, LEN, LEN + 2 more
\* bytes at least, END last
CompleteFrame(f) ==
    /\ Len(f) >= 2 /\ f[1] = STX
    /\ Len(f) >= f[2] + 4
    /\ f[Len(f)] = ETX

\* the frame passes the START/END check and the checksum check
FramePassed(f) ==
    /\ Len(f) >= 5
    /\ f[1] = STX /\ f[Len(f)] = ETX
    /\ f[Len(f) - 1] = Crc8Reference(SubSeq(f, 2, Len(f) - 2))

\* the call of thread t that has ended, if any
Ended(t) == dresult[t].outcome # "none"

RoundTripSafe ==
    \A t \in Threads :
        /\ dresult[t].outcome \in {"none", "return", "TFlexError", "TFlexHardwareError",
                                    "TFlexTimeoutError"}
        /\ dresult[t].outcome = "return" =>
              /\ CompleteFrame(dresult[t].frame)
              /\ FramePassed(dresult[t].frame)
              /\ dresult[t].body = SubSeq(dresult[t].frame, 3, Len(dresult[t].frame) - 2)
        /\ (Ended(t) /\ ~CompleteFrame(dresult[t].frame)) =>
              dresult[t].outcome = "TFlexTimeoutError" /\ dresult[t].body = <<>>

\* C34: every driver round trip terminates and never yields a partial frame.
\* A call that has written its request ends; it ends either returning body
\* bytes taken from a frame that passed the START/END check and the checksum
\* check, or raising an error; when the bytes read up to the deadline are not
\* a complete frame it raises the timeout error.
C34_RoundTripTerminates ==
    /\ []RoundTripSafe
    /\ \A t \in Threads : InRoundTrip(t) ~> (dpc[t] = "idle")

\* a call timed out after reading the first three bytes of a response, and
\* another returned the body of a whole frame
C34_Witness ==
    \E t, u \in Threads :
        /\ dresult[t].outcome = "TFlexTimeoutError" /\ Len(dresult[t].frame) = 3
        /\ dresult[u].outcome = "return" /\ Len(dresult[u].body) = 4

-----------------------------------------------------------------------------
(* Claims about the cached status snapshot.  They read `alast`: the driver
   before the latest call, the transport during it, and the driver after. *)

\* the latest call was a status()
Polled == alast.op \in {"status", "status_sim"}

\* the body _send_command handed to status(), when it returned one
PollBody ==
    IF alast.pre.mock_mode THEN mock_command(alast.pre.mock_coins, CMD_STATUS, <<>>).body
    ELSE alast.line.body

\* the poll succeeded: a body of four bytes or more with outcome OK came back
PollSucceeded ==
    /\ Polled /\ alast.sc.outcome = "return"
    /\ Len(PollBody) >= 4 /\ PollBody[1] = RESP_OK

\* only the fault flag differs, if anything
SameButFault(a, b) == [a EXCEPT !.fault = b.fault] = b

\* C39: a failed status() (timeout, transport, framing or CRC error, non-OK
\* outcome) changes only the fault flag of the cached snapshot: low_coin,
\* lid_open and coins_available keep the values of the last successful poll,
\* through dispense(), reset() and close() as well; and a fault flag that is
\* set is cleared only by a STATUS response with outcome OK whose fault bit is 0.
C39_FailedPollKeepsSnapshot ==
    alast.op # "none" =>
        /\ ~PollSucceeded =>
              /\ SameButFault(alast.pre.last_status, drv.last_status)
              /\ alast.pre.last_status.fault => drv.last_status.fault
        /\ (alast.pre.last_status.fault /\ ~drv.last_status.fault) =>
              PollSucceeded /\ Bit(PollBody[2], 2) = 0

\* a poll had found the lid open and 40 coins; the next poll got no answer:
\* the snapshot still says lid open and 40 coins, and now fault
C39_Witness ==
    /\ alast.op = "status" /\ alast.line.damage = "silent"
    /\ alast.sc.outcome = "TFlexTimeoutError"
    /\ alast.pre.last_status =
          [low_coin |-> FALSE, lid_open |-> TRUE, fault |-> FALSE, coins_available |-> 40]
    /\ drv.last_status =
          [low_coin |-> FALSE, lid_open |-> TRUE, fault |-> TRUE, coins_available |-> 40]

-----------------------------------------------------------------------------
(* Claims about the driver in degraded mode under concurrent callers *)

\* no call is under way
ThreadsQuiet == \A t \in Threads : dpc[t] = "idle"

\* C38: in degraded mode, concurrent dispense() calls from several threads
\* never drive the local coin counter below 0 and never lose an update: once
\* the calls have ended the counter equals its value before them minus the sum
\* of the counts of the calls that returned.
C38_ConcurrentMockDispense ==
    /\ drv.mock_coins >= 0
    /\ ThreadsQuiet => drv.mock_coins = alast.pre - alast.paid

-----------------------------------------------------------------------------
(* Claims about the two low-coin tests *)

\* C40: the driver's degraded-mode simulation and the device simulator with
\* threshold 50 agree on the low-coin flag for every coin count c in 0..1000:
\* degraded-mode status() reports low_coin exactly when the simulator's STATUS
\* sets bit 0 for coins_available = c.
C40_LowCoinAgreement ==
    (alast.op = "status" /\ cres.outcome = "handled") =>
        alast.value.low_coin = (Bit(cres.response[2], 0) = 1)

====
